---- MODULE Spec2Model ----
(***************************************************************************)
(* WTLang: symbol table (symbols.rs), semantic analyzer (semantics.rs),   *)
(* lexer (lexer.rs), parser (parser.rs), IR builder (ir/builder.rs), the   *)
(* compiler driver and its code generator (wtlang-compiler main.rs,        *)
(* codegen.rs) and the editor server (wtlang-lsp main.rs).                 *)
(*                                                                         *)
(* Option<T> values are sequences: <<>> is None, <<v>> is Some(v).          *)
(* Arc<Scope> is modelled by value: an Arc without interior mutability    *)
(* is only ever changed through Arc::make_mut, which copies the scope      *)
(* when another Arc (a child's parent link) still points to it.            *)
(***************************************************************************)
EXTENDS Integers, Sequences, FiniteSets, TLC

VARIABLES
    symbols,      \* SymbolTable: [global, current_scopes]
    lastOp,       \* the last SymbolTable call and what it returned
    program,      \* the Program handed to SemanticAnalyzer::analyze
    phase,        \* position of analyze(): "declare", "functions", "pages", "finish", "done"
    idx,          \* index of the next item of the running pass
    errors,       \* SemanticAnalyzer.errors
    result,       \* what analyze() returned: <<>> until it returns
    lexer,        \* Lexer, with the tokens and the return value of tokenize()
    parser,       \* Parser, with the items and the return value of parse()
    exit,         \* what check_command returned: "" until it returns
    builder,      \* IRBuilder, with the IRModule of build() and its return value
    codegen,      \* CodeGenerator, with the files of generate() and its return value
    server        \* WTLangServer, with its running handlers and its client

vars ==
    <<symbols, lastOp, program, phase, idx, errors, result, lexer, parser, exit,
      builder, codegen, server>>

---------------------------------------------------------------------------
(* Bounds of the model *)

MaxDepth == 3

\* names, types and scope kinds the symbol-table caller draws from
SymNames == {"x"}

\* ast.rs Type: the primitive types and Table(name)
TInt == [t |-> "Int", name |-> ""]

TString == [t |-> "String", name |-> ""]

TTable(n) == [t |-> "Table", name |-> n]

Types == {TInt, TString}

PushKinds == {"Page"}

---------------------------------------------------------------------------
(* symbols.rs: Scope *)

None == <<>>

Some(v) == <<v>>

Symbol(name, ty, kind, init, mut) ==
    [name |-> name, symbol_type |-> ty, kind |-> kind,
     is_initialized |-> init, is_mutable |-> mut]

\* Scope::new
Scope_new(parent, kind) ==
    [parent |-> parent, symbols |-> <<>>, kind |-> kind]

\* HashMap::contains_key on a scope's own map
lookup_local(scope, name) ==
    IF name \in DOMAIN scope.symbols THEN Some(scope.symbols[name]) ELSE None

RECURSIVE Scope_lookup(_, _)
\* Scope::lookup: own map first, then the parent link
Scope_lookup(scope, name) ==
    IF name \in DOMAIN scope.symbols
    THEN Some(scope.symbols[name])
    ELSE IF scope.parent = None
         THEN None
         ELSE Scope_lookup(scope.parent[1], name)

\* Scope::define that refuses a name bound anywhere on the parent chain
Scope_define_chain(scope, name, symbol) ==
    IF Scope_lookup(scope, name) # None
    THEN [scope |-> scope, result |-> "Redefinition"]
    ELSE [scope |-> [scope EXCEPT !.symbols = (name :> symbol) @@ @],
          result |-> "Ok"]

\* Scope::define that inserts without looking (HashMap::insert overwrites)
Scope_define_overwrite(scope, name, symbol) ==
    [scope |-> [scope EXCEPT !.symbols =
                   (name :> symbol) @@ [n \in DOMAIN @ \ {name} |-> @[n]]],
     result |-> "Ok"]

\* Scope::define: Err(Redefinition) when the name is in this scope's own map
Scope_define(scope, name, symbol) ==
    IF name \in DOMAIN scope.symbols
    THEN [scope |-> scope, result |-> "Redefinition"]
    ELSE [scope |-> [scope EXCEPT !.symbols = (name :> symbol) @@ @],
          result |-> "Ok"]

---------------------------------------------------------------------------
(* symbols.rs: SymbolTable *)

SymbolTable_new ==
    [global |-> Scope_new(None, "Global"), current_scopes |-> <<>>]

current_scope(t) ==
    IF t.current_scopes = <<>>
    THEN t.global
    ELSE t.current_scopes[Len(t.current_scopes)]

push_scope(t, kind) ==
    [t EXCEPT !.current_scopes =
        Append(@, Scope_new(Some(current_scope(t)), kind))]

\* pop_scope that hands the popped bindings to the scope beneath
pop_scope_leak(t) ==
    IF t.current_scopes = <<>>
    THEN [table |-> t, popped |-> None]
    ELSE LET n == Len(t.current_scopes)
             top == t.current_scopes[n]
         IN  [table |->
                 IF n = 1
                 THEN [global |-> [t.global EXCEPT
                                      !.symbols = top.symbols @@ @],
                       current_scopes |-> <<>>]
                 ELSE [global |-> t.global,
                       current_scopes |->
                           [SubSeq(t.current_scopes, 1, n - 1) EXCEPT
                               ![n - 1].symbols = top.symbols @@ @]],
              popped |-> Some(top)]

\* Vec::pop: the removed scope is returned, None on an empty stack
pop_scope(t) ==
    IF t.current_scopes = <<>>
    THEN [table |-> t, popped |-> None]
    ELSE [table |-> [t EXCEPT !.current_scopes =
                        SubSeq(@, 1, Len(@) - 1)],
          popped |-> Some(t.current_scopes[Len(t.current_scopes)])]

define(t, name, symbol) ==
    IF t.current_scopes = <<>>
    THEN LET r == Scope_define(t.global, name, symbol)
         IN  [table |-> [t EXCEPT !.global = r.scope], result |-> r.result]
    ELSE LET i == Len(t.current_scopes)
             r == Scope_define(t.current_scopes[i], name, symbol)
         IN  [table |-> [t EXCEPT !.current_scopes[i] = r.scope],
              result |-> r.result]

lookup(t, name) == Scope_lookup(current_scope(t), name)

\* index of the innermost active scope whose own map holds name, 0 if none
InnermostHolding(t, name) ==
    LET S == {i \in 1..Len(t.current_scopes) :
                 lookup_local(t.current_scopes[i], name) # None}
    IN  IF S = {} THEN 0 ELSE CHOOSE i \in S : \A j \in S : j <= i

mark_initialized(t, name) ==
    LET i == InnermostHolding(t, name)
    IN  IF i > 0
        THEN [table |-> [t EXCEPT
                  !.current_scopes[i].symbols[name].is_initialized = TRUE],
              result |-> "Ok"]
        ELSE IF lookup_local(t.global, name) # None
             THEN [table |-> [t EXCEPT
                       !.global.symbols[name].is_initialized = TRUE],
                   result |-> "Ok"]
             ELSE [table |-> t, result |-> "UndefinedVariable"]

---------------------------------------------------------------------------
(* ast.rs as semantics.rs reads it: expressions, statements, items *)

\* name: identifier, callee, field, string value or numeral; op: operator, mode
Expr(k, name, op, args, columns) ==
    [k |-> k, name |-> name, op |-> op, args |-> args, columns |-> columns]

Id(n) == Expr("Identifier", n, "", <<>>, <<>>)

\* an i64 is held as its decimal numeral without leading zeros
IntLit(n) == Expr("IntLiteral", n, "", <<>>, <<>>)

\* an f64 is held as the numeral of a short decimal literal, normalised
FloatLit(f) == Expr("FloatLiteral", f, "", <<>>, <<>>)

StrLit(s) == Expr("StringLiteral", s, "", <<>>, <<>>)

\* b is "true" or "false"
BoolLit(b) == Expr("BoolLiteral", b, "", <<>>, <<>>)

Call(f, args) == Expr("FunctionCall", f, "", args, <<>>)

BinOp(op, l, r) == Expr("BinaryOp", "", op, <<l, r>>, <<>>)

UnOp(op, operand) == Expr("UnaryOp", "", op, <<operand>>, <<>>)

Chain(l, r) == Expr("Chain", "", "", <<l, r>>, <<>>)

Where(table, condition) == Expr("Where", "", "", <<table, condition>>, <<>>)

\* columns: SortColumn records [name, ascending]
SortBy(table, columns) == Expr("SortBy", "", "", <<table>>, columns)

\* columns: SortColumn records too, ascending unused
ColumnSelect(table, columns) == Expr("ColumnSelect", "", "", <<table>>, columns)

SortColumn(name, ascending) == [name |-> name, ascending |-> ascending]

FieldAccess(object, field) == Expr("FieldAccess", field, "", <<object>>, <<>>)

Index(object, index) == Expr("Index", "", "", <<object, index>>, <<>>)

ArrayLiteral(elements) == Expr("ArrayLiteral", "", "", elements, <<>>)

FilterLiteral(column, mode) == Expr("FilterLiteral", column, mode, <<>>, <<>>)

Stmt(k, name, ty, value, body, else_branch) ==
    [k |-> k, name |-> name, ty |-> ty, value |-> value, body |-> body,
     else_branch |-> else_branch]

\* Title, Subtitle and Text carry their string in name
TextStmt(k, text) == Stmt(k, text, None, None, <<>>, None)

Let(name, ty, value) == Stmt("Let", name, ty, value, <<>>, None)

Assign(name, value) == Stmt("Assign", name, None, Some(value), <<>>, None)

Return(value) == Stmt("Return", "", None, Some(value), <<>>, None)

CallStmt(call) == Stmt("FunctionCall", "", None, Some(call), <<>>, None)

If(cond, then_branch, else_branch) ==
    Stmt("If", "", None, Some(cond), then_branch, else_branch)

Forall(var, iterable, body) == Stmt("Forall", var, None, Some(iterable), body, None)

Section(title, body) == Stmt("Section", title, None, None, body, None)

Button(label, body) == Stmt("Button", label, None, None, body, None)

\* the type slot of an item that has no return type
NoType == [t |-> "", name |-> ""]

Item(k, name, params, return_type, body, fields, module) ==
    [k |-> k, name |-> name, params |-> params, return_type |-> return_type,
     body |-> body, fields |-> fields, module |-> module]

Field(name, field_type, constraints) ==
    [name |-> name, field_type |-> field_type, constraints |-> constraints]

TableDef(name, fields) == Item("TableDef", name, <<>>, NoType, <<>>, fields, "")

FunctionDef(name, params, return_type, body) ==
    Item("FunctionDef", name, params, return_type, body, <<>>, "")

ExternalFunction(name, params, return_type, module) ==
    Item("ExternalFunction", name, params, return_type, <<>>, <<>>, module)

Page(name, statements) == Item("Page", name, <<>>, NoType, statements, <<>>, "")

Test(name, body) == Item("Test", name, <<>>, NoType, body, <<>>, "")

Parameter(name, ty) == [name |-> name, param_type |-> ty]

---------------------------------------------------------------------------
(* semantics.rs: SemanticAnalyzer. An analyzer state st is                 *)
(* [symbols |-> SymbolTable, errors |-> Vec<SemanticError>, depths]; the   *)
(* code has no depths: it is the history of current_scopes.len() at the    *)
(* start of every call of check_statement, kept for the claims.            *)

SemanticError(e, name, expected, found) ==
    [e |-> e, name |-> name, expected |-> expected, found |-> found]

UndefinedVariable(name) == SemanticError("UndefinedVariable", name, None, None)

Redefinition(name) == SemanticError("Redefinition", name, None, None)

UninitializedVariable(name) ==
    SemanticError("UninitializedVariable", name, None, None)

MissingTypeOrInitializer(name) ==
    SemanticError("MissingTypeOrInitializer", name, None, None)

TypeMismatch(expected, found) ==
    SemanticError("TypeMismatch", "", Some(expected), Some(found))

push_error(st, err) == [st EXCEPT !.errors = Append(@, err)]

\* a define whose Err is dropped
define_or_ignore(st, name, symbol) ==
    LET r == define(st.symbols, name, symbol)
    IN  IF r.result = "Ok" THEN [st EXCEPT !.symbols = r.table] ELSE st

\* symbols.define(..) whose Err is turned into a Redefinition error
define_or_report(st, name, symbol) ==
    LET r == define(st.symbols, name, symbol)
    IN  IF r.result = "Ok"
        THEN [st EXCEPT !.symbols = r.table]
        ELSE push_error(st, Redefinition(name))

infer_expr_type(st, expr) ==
    CASE expr.k = "IntLiteral" -> TInt
      [] expr.k = "FloatLiteral" -> [t |-> "Float", name |-> ""]
      [] expr.k = "StringLiteral" -> TString
      [] expr.k = "BoolLiteral" -> [t |-> "Bool", name |-> ""]
      [] expr.k \in {"Identifier", "FunctionCall"} ->
            LET s == lookup(st.symbols, expr.name)
            IN  IF s # None THEN s[1].symbol_type ELSE TInt
      [] OTHER -> TInt

get_element_type(ty) == IF ty.t = "Table" THEN ty ELSE TInt

types_compatible(t1, t2) == t1 = t2

RECURSIVE check_expression(_, _)
RECURSIVE check_expressions(_, _)
\* the for loops over call arguments and array items, and the operand pairs
check_expressions(st, exprs) ==
    IF exprs = <<>> THEN st
    ELSE check_expressions(check_expression(st, Head(exprs)), Tail(exprs))

check_function_call(st, call) == check_expressions(st, call.args)

check_expression(st, expr) ==
    CASE expr.k = "Identifier" ->
            LET s == lookup(st.symbols, expr.name)
            IN  IF s # None
                THEN IF ~s[1].is_initialized
                     THEN push_error(st, UninitializedVariable(expr.name))
                     ELSE st
                ELSE push_error(st, UndefinedVariable(expr.name))
      [] expr.k = "FunctionCall" -> check_function_call(st, expr)
      [] expr.k \in {"BinaryOp", "Index", "Chain"} ->
            check_expression(check_expression(st, expr.args[1]), expr.args[2])
      [] expr.k \in {"UnaryOp", "Lambda", "FieldAccess"} ->
            check_expression(st, expr.args[1])
      [] expr.k = "ArrayLiteral" -> check_expressions(st, expr.args)
      [] OTHER -> st

with_symbols(st, t) == [st EXCEPT !.symbols = t]

RECURSIVE check_statement(_, _)
RECURSIVE check_statements(_, _)
\* a statement loop that gives up at the first statement that records an error
check_statements_failfast(st, stmts) ==
    IF stmts = <<>> THEN st
    ELSE LET next == check_statement(st, Head(stmts))
         IN  IF Len(next.errors) > Len(st.errors) THEN next
             ELSE check_statements(next, Tail(stmts))

\* for s in body { self.check_statement(s) }
check_statements(st, stmts) ==
    IF stmts = <<>> THEN st
    ELSE check_statements(check_statement(st, Head(stmts)), Tail(stmts))

\* a block whose scope is pushed and never popped
check_unpopped_body(st, kind, stmts) ==
    check_statements(with_symbols(st, push_scope(st.symbols, kind)), stmts)

\* push_scope(kind); check the body; pop_scope()
check_scoped_body(st, kind, stmts) ==
    LET entered == with_symbols(st, push_scope(st.symbols, kind))
        checked == check_statements(entered, stmts)
    IN  with_symbols(checked, pop_scope(checked.symbols).table)

check_let(st, stmt) ==
    LET has_value == stmt.value # None
        has_type == stmt.ty # None
        st1 == IF has_value \/ has_type THEN st
               ELSE push_error(st, MissingTypeOrInitializer(stmt.name))
        symbol_type == IF has_value THEN infer_expr_type(st, stmt.value[1])
                       ELSE IF has_type THEN stmt.ty[1] ELSE TInt
        st2 == define_or_report(st1, stmt.name,
                   Symbol(stmt.name, symbol_type, "Variable", has_value, FALSE))
    IN  IF has_type /\ has_value
        THEN LET inferred == infer_expr_type(st2, stmt.value[1])
             IN  IF ~types_compatible(stmt.ty[1], inferred)
                 THEN push_error(st2, TypeMismatch(stmt.ty[1], inferred))
                 ELSE st2
        ELSE st2

check_assign(st, stmt) ==
    LET s == lookup(st.symbols, stmt.name)
        st1 == IF s # None
               THEN LET value_type == infer_expr_type(st, stmt.value[1])
                        st0 == IF ~types_compatible(s[1].symbol_type, value_type)
                               THEN push_error(st,
                                        TypeMismatch(s[1].symbol_type, value_type))
                               ELSE st
                    IN  with_symbols(st0,
                            mark_initialized(st0.symbols, stmt.name).table)
               ELSE push_error(st, UndefinedVariable(stmt.name))
    IN  check_expression(st1, stmt.value[1])

check_if(st, stmt) ==
    LET st1 == check_expression(st, stmt.value[1])
        st2 == check_scoped_body(st1, "IfBranch", stmt.body)
    IN  IF stmt.else_branch # None
        THEN check_scoped_body(st2, "IfBranch", stmt.else_branch[1])
        ELSE st2

check_forall(st, stmt) ==
    LET st1 == check_expression(st, stmt.value[1])
        elem_type == get_element_type(infer_expr_type(st1, stmt.value[1]))
        entered == with_symbols(st1, push_scope(st1.symbols, "ForallLoop"))
        bound == define_or_report(entered, stmt.name,
                     Symbol(stmt.name, elem_type, "LoopVariable", TRUE, FALSE))
        checked == check_statements(bound, stmt.body)
    IN  with_symbols(checked, pop_scope(checked.symbols).table)

\* the state at the start of a call of check_statement, its depth noted
called(st) == [st EXCEPT !.depths = Append(@, Len(st.symbols.current_scopes))]

check_statement(st, stmt) ==
    CASE stmt.k = "Let" -> check_let(called(st), stmt)
      [] stmt.k = "Assign" -> check_assign(called(st), stmt)
      [] stmt.k = "Section" -> check_scoped_body(called(st), "Section", stmt.body)
      [] stmt.k = "Button" -> check_scoped_body(called(st), "Button", stmt.body)
      [] stmt.k = "If" -> check_if(called(st), stmt)
      [] stmt.k = "Forall" -> check_forall(called(st), stmt)
      [] stmt.k = "Return" -> check_expression(called(st), stmt.value[1])
      [] stmt.k = "FunctionCall" -> check_function_call(called(st), stmt.value[1])
      [] OTHER -> called(st)

define_table(st, table) ==
    define_or_report(st, table.name,
        Symbol(table.name, TTable(table.name), "Table", TRUE, FALSE))

define_function_signature(st, func) ==
    define_or_report(st, func.name,
        Symbol(func.name, func.return_type, "Function", TRUE, FALSE))

define_external_function(st, ext) ==
    define_or_report(st, ext.name,
        Symbol(ext.name, ext.return_type, "ExternalFunction", TRUE, FALSE))

RECURSIVE define_parameters(_, _)
\* for param in &func.params { define, Redefinition on Err }
define_parameters(st, params) ==
    IF params = <<>> THEN st
    ELSE define_parameters(
             define_or_report(st, Head(params).name,
                 Symbol(Head(params).name, Head(params).param_type,
                        "Parameter", TRUE, FALSE)),
             Tail(params))

check_function_body(st, func) ==
    LET entered == with_symbols(st, push_scope(st.symbols, "FunctionBody"))
        bound == define_parameters(entered, func.params)
        checked == check_statements(bound, func.body)
    IN  with_symbols(checked, pop_scope(checked.symbols).table)

check_page(st, page) == check_scoped_body(st, "Page", page.body)

check_test(st, test) == check_scoped_body(st, "TestBody", test.body)

\* what analyze() returns: Ok(()) or Err(self.errors.clone())
analyze_result(errs) ==
    IF errs = <<>> THEN [ok |-> TRUE, errors |-> <<>>]
    ELSE [ok |-> FALSE, errors |-> errs]

---------------------------------------------------------------------------
(* errors.rs: DiagnosticBag. Only add_error feeds the bags of the lexer    *)
(* and the parser, so every entry has severity Error; the message text is  *)
(* left out.                                                               *)

Diagnostic(code, line, column) == [code |-> code, line |-> line, column |-> column]

has_errors(bag) == bag # <<>>

---------------------------------------------------------------------------
(* lexer.rs: Lexer. A source is a sequence of one-character strings.       *)

Token(token_type, text, line, column) ==
    [token_type |-> token_type, text |-> text, line |-> line, column |-> column]

Lexer_new(input) ==
    [input |-> input, position |-> 0, line |-> 1, column |-> 1,
     diagnostics |-> <<>>, tokens |-> <<>>, result |-> None]

Lexer_is_at_end(lx) == lx.position >= Len(lx.input)

\* the character '\0'
NUL == "\\0"

current_char(lx) ==
    IF Lexer_is_at_end(lx) THEN NUL ELSE lx.input[lx.position + 1]

Lexer_peek(lx) ==
    IF lx.position + 1 < Len(lx.input)
    THEN Some(lx.input[lx.position + 2])
    ELSE None

Lexer_advance(lx) ==
    IF Lexer_is_at_end(lx) THEN lx
    ELSE IF current_char(lx) = "\n"
         THEN [lx EXCEPT !.line = @ + 1, !.column = 1, !.position = @ + 1]
         ELSE [lx EXCEPT !.column = @ + 1, !.position = @ + 1]

Lexer_add_error(lx, code, line, column) ==
    [lx EXCEPT !.diagnostics = Append(@, Diagnostic(code, line, column))]

\* char::is_ascii_digit
is_ascii_digit(ch) ==
    ch \in {"0", "1", "2", "3", "4", "5", "6", "7", "8", "9"}

\* char::is_alphabetic, on the ASCII letters
is_alphabetic(ch) ==
    ch \in {"a", "b", "c", "d", "e", "f", "g", "h", "i", "j", "k", "l", "m",
            "n", "o", "p", "q", "r", "s", "t", "u", "v", "w", "x", "y", "z",
            "A", "B", "C", "D", "E", "F", "G", "H", "I", "J", "K", "L", "M",
            "N", "O", "P", "Q", "R", "S", "T", "U", "V", "W", "X", "Y", "Z"}

is_alphanumeric(ch) == is_alphabetic(ch) \/ is_ascii_digit(ch)

RECURSIVE skip_whitespace(_)
skip_whitespace(lx) ==
    IF ~Lexer_is_at_end(lx) /\ current_char(lx) \in {" ", "\t", "\r", "\n"}
    THEN skip_whitespace(Lexer_advance(lx))
    ELSE lx

RECURSIVE skip_comment(_)
skip_comment(lx) ==
    IF ~Lexer_is_at_end(lx) /\ current_char(lx) # "\n"
    THEN skip_comment(Lexer_advance(lx))
    ELSE lx

\* Result<Token, ()> together with the lexer it leaves behind
LexOk(lx, token_type, text, line, column) ==
    [lx |-> lx, ok |-> TRUE, token |-> Token(token_type, text, line, column)]

LexErr(lx) == [lx |-> lx, ok |-> FALSE, token |-> Token("", "", 0, 0)]

\* the escape table of read_string
escaped(ch) ==
    CASE ch = "n" -> "\n"
      [] ch = "t" -> "\t"
      [] ch = "r" -> "\r"
      [] OTHER -> ch

RECURSIVE read_string_loop(_, _)
\* the while loop of read_string: [lx, value]
read_string_loop(lx, value) ==
    IF ~Lexer_is_at_end(lx) /\ current_char(lx) # "\""
    THEN IF current_char(lx) = "\\"
         THEN LET a == Lexer_advance(lx)
              IN  IF ~Lexer_is_at_end(a)
                  THEN read_string_loop(Lexer_advance(a),
                                        value \o escaped(current_char(a)))
                  ELSE read_string_loop(a, value)
         ELSE read_string_loop(Lexer_advance(lx), value \o current_char(lx))
    ELSE [lx |-> lx, value |-> value]

read_string(lx) ==
    LET r == read_string_loop(Lexer_advance(lx), "")
    IN  IF Lexer_is_at_end(r.lx)
        THEN LexErr(Lexer_add_error(r.lx, "E1001", lx.line, lx.column))
        ELSE LexOk(Lexer_advance(r.lx), "StringLiteral", r.value,
                   lx.line, lx.column)

\* the while loop of read_number run to its end: [lx, value, is_float], value
\* as characters. The loop takes digits and dots and stops before a second
\* dot; none of them is a newline, so each advance() moves one column on.
read_number_loop(lx) ==
    LET first == lx.position + 1
        stops == {i \in first..Len(lx.input) :
                     ~(is_ascii_digit(lx.input[i]) \/ lx.input[i] = ".")}
        run == IF stops = {} THEN Len(lx.input)
               ELSE (CHOOSE i \in stops : \A j \in stops : i <= j) - 1
        dots == {i \in first..run : lx.input[i] = "."}
        later == {i \in dots : \E j \in dots : j < i}
        last == IF later = {} THEN run
                ELSE (CHOOSE i \in later : \A j \in later : i <= j) - 1
    IN  [lx |-> [lx EXCEPT !.position = last,
                           !.column = @ + (last - lx.position)],
         value |-> SubSeq(lx.input, first, last),
         is_float |-> dots # {}]

RECURSIVE Concat(_)
\* the String made of a sequence of characters
Concat(chars) ==
    IF chars = <<>> THEN "" ELSE Head(chars) \o Concat(Tail(chars))

RECURSIVE strip_leading_zeros(_)
strip_leading_zeros(digits) ==
    IF Len(digits) > 1 /\ Head(digits) = "0"
    THEN strip_leading_zeros(Tail(digits))
    ELSE digits

RECURSIVE strip_trailing_zeros(_)
strip_trailing_zeros(digits) ==
    IF Len(digits) > 1 /\ digits[Len(digits)] = "0"
    THEN strip_trailing_zeros(SubSeq(digits, 1, Len(digits) - 1))
    ELSE digits

\* i64::MAX = 9223372036854775807
I64_MAX ==
    <<"9", "2", "2", "3", "3", "7", "2", "0", "3", "6",
      "8", "5", "4", "7", "7", "5", "8", "0", "7">>

DigitValue(ch) ==
    CHOOSE n \in 0..9 :
        <<"0", "1", "2", "3", "4", "5", "6", "7", "8", "9">>[n + 1] = ch

RECURSIVE numeral_leq(_, _)
\* a <= b for two numerals of the same length
numeral_leq(a, b) ==
    IF a = <<>> THEN TRUE
    ELSE IF Head(a) = Head(b) THEN numeral_leq(Tail(a), Tail(b))
         ELSE DigitValue(Head(a)) < DigitValue(Head(b))

\* str::parse::<i64> on a string of digits: Err when the value exceeds i64::MAX
parse_i64(value) ==
    LET d == strip_leading_zeros(value)
        fits == IF Len(d) = Len(I64_MAX) THEN numeral_leq(d, I64_MAX)
                ELSE Len(d) < Len(I64_MAX)
    IN  IF fits THEN [ok |-> TRUE, num |-> Concat(d)]
        ELSE [ok |-> FALSE, num |-> ""]

\* str::parse::<f64> on digits with one dot, the first character a digit:
\* "1." and "1.50" are accepted; the value is kept as a normalised numeral
parse_f64(value) ==
    LET dot == CHOOSE i \in 1..Len(value) : value[i] = "."
        int_part == strip_leading_zeros(SubSeq(value, 1, dot - 1))
        frac == SubSeq(value, dot + 1, Len(value))
        frac_part == IF frac = <<>> THEN <<"0">> ELSE strip_trailing_zeros(frac)
    IN  [ok |-> int_part # <<>>,
         num |-> Concat(int_part) \o "." \o Concat(frac_part)]

read_number(lx) ==
    LET r == read_number_loop(lx)
        parsed == IF r.is_float THEN parse_f64(r.value) ELSE parse_i64(r.value)
    IN  IF parsed.ok
        THEN LexOk(r.lx, IF r.is_float THEN "FloatLiteral" ELSE "IntLiteral",
                   parsed.num, lx.line, lx.column)
        ELSE LexErr(Lexer_add_error(r.lx, "E1002", lx.line, lx.column))

RECURSIVE read_identifier_loop(_, _)
\* the while loop of read_identifier: [lx, value]
read_identifier_loop(lx, value) ==
    IF ~Lexer_is_at_end(lx)
       /\ (is_alphanumeric(current_char(lx)) \/ current_char(lx) = "_")
    THEN read_identifier_loop(Lexer_advance(lx), value \o current_char(lx))
    ELSE [lx |-> lx, value |-> value]

\* the keyword table of read_identifier
Keywords ==
    [page |-> "Page", table |-> "Table", title |-> "Title",
     subtitle |-> "Subtitle", button |-> "Button", section |-> "Section",
     text |-> "Text", let |-> "Let", function |-> "Function",
     external |-> "External", from |-> "From", import |-> "Import",
     test |-> "Test", mock |-> "Mock", assert |-> "Assert", if |-> "If",
     else |-> "Else", forall |-> "Forall", in |-> "In", return |-> "Return",
     filter |-> "Filter", single |-> "Single", multi |-> "Multi",
     where |-> "Where", by |-> "By", asc |-> "Asc", desc |-> "Desc",
     key |-> "Key", ref |-> "Ref", int |-> "Int", float |-> "Float",
     string |-> "String", date |-> "Date", currency |-> "Currency",
     bool |-> "Bool", number |-> "Number"]

read_identifier(lx) ==
    LET r == read_identifier_loop(lx, "")
    IN  IF r.value \in DOMAIN Keywords
        THEN LexOk(r.lx, Keywords[r.value], "", lx.line, lx.column)
        ELSE IF r.value \in {"true", "false"}
             THEN LexOk(r.lx, "BoolLiteral", r.value, lx.line, lx.column)
             ELSE LexOk(r.lx, "Identifier", r.value, lx.line, lx.column)

\* the one-character arms of next_token
SingleCharTokens ==
    ("+" :> "Plus") @@ ("*" :> "Star") @@ ("/" :> "Slash")
    @@ ("%" :> "Percent") @@ ("(" :> "LeftParen") @@ (")" :> "RightParen")
    @@ ("{" :> "LeftBrace") @@ ("}" :> "RightBrace")
    @@ ("[" :> "LeftBracket") @@ ("]" :> "RightBracket")
    @@ ("," :> "Comma") @@ (":" :> "Colon") @@ (";" :> "Semicolon")
    @@ ("." :> "Dot") @@ ("_" :> "Underscore")

\* the arms that look at the character after the first: first -> second -> token
PairTokens ==
    ("-" :> (">" :> "Arrow"))
    @@ ("=" :> (("=" :> "Equals") @@ (">" :> "FatArrow")))
    @@ ("!" :> ("=" :> "NotEquals"))
    @@ ("<" :> ("=" :> "LessThanEquals"))
    @@ (">" :> ("=" :> "GreaterThanEquals"))
    @@ ("&" :> ("&" :> "And"))
    @@ ("|" :> ("|" :> "Or"))

\* what the first character is when the second does not complete a pair;
\* '&' and '|' have no such token
LoneTokens ==
    ("-" :> "Minus") @@ ("=" :> "Assign") @@ ("!" :> "Not")
    @@ ("<" :> "LessThan") @@ (">" :> "GreaterThan")

RECURSIVE next_token(_)
next_token(lx) ==
    LET ch == current_char(lx)
        after == Lexer_advance(lx)
    IN  CASE ch = "/" /\ Lexer_peek(lx) = Some("/") ->
                next_token(skip_whitespace(skip_comment(lx)))
          [] ch = "\"" -> read_string(lx)
          [] is_ascii_digit(ch) -> read_number(lx)
          [] is_alphabetic(ch) \/ ch = "_" -> read_identifier(lx)
          [] ch \in DOMAIN SingleCharTokens ->
                LexOk(after, SingleCharTokens[ch], "", lx.line, lx.column)
          [] ch \in DOMAIN PairTokens ->
                IF current_char(after) \in DOMAIN PairTokens[ch]
                THEN LexOk(Lexer_advance(after),
                           PairTokens[ch][current_char(after)], "",
                           lx.line, lx.column)
                ELSE IF ch \in DOMAIN LoneTokens
                     THEN LexOk(after, LoneTokens[ch], "", lx.line, lx.column)
                     ELSE LexErr(Lexer_add_error(after, "E1003",
                                                 lx.line, lx.column))
          [] OTHER -> LexErr(Lexer_add_error(lx, "E1003", lx.line, lx.column))

\* one iteration of the while loop of tokenize
tokenize_iteration(lx) ==
    LET ws == skip_whitespace(lx)
    IN  IF Lexer_is_at_end(ws) THEN ws
        ELSE LET r == next_token(ws)
             IN  IF r.ok
                 THEN [r.lx EXCEPT !.tokens = Append(@, r.token)]
                 ELSE Lexer_advance(r.lx)

\* Result<Vec<Token>, DiagnosticBag>
TokenizeResult(ok, tokens, diagnostics) ==
    [ok |-> ok, tokens |-> tokens, diagnostics |-> diagnostics]

\* the end of tokenize: the Eof token, then Err(diagnostics) or Ok(tokens)
tokenize_return(lx) ==
    LET tokens == Append(lx.tokens, Token("Eof", "", lx.line, lx.column))
    IN  [lx EXCEPT
            !.tokens = tokens,
            !.result = Some(IF has_errors(lx.diagnostics)
                            THEN TokenizeResult(FALSE, <<>>, lx.diagnostics)
                            ELSE TokenizeResult(TRUE, tokens, <<>>))]

RECURSIVE tokenize(_)
\* Lexer::tokenize run to its return
tokenize(lx) ==
    IF Lexer_is_at_end(lx) THEN tokenize_return(lx)
    ELSE tokenize(tokenize_iteration(lx))

---------------------------------------------------------------------------
(* parser.rs: Parser. A parse function returning Result<T, ()> is an       *)
(* operator from a running result [p, ok, val] to the next one: p is the   *)
(* parser, ok tells that every step so far returned Ok, val holds the      *)
(* values produced so far, newest last. The ? operator is the first line   *)
(* of each step: a result that is not ok is handed on as it is.            *)

Parser_new(tokens) ==
    [tokens |-> tokens, current |-> 0, diagnostics |-> <<>>,
     items |-> <<>>, result |-> None]

\* the running result a parse function starts from
Running(p) == [p |-> p, ok |-> TRUE, val |-> <<>>]

\* the same point of the parse with no value produced yet
fresh(r) == [r EXCEPT !.val = <<>>]

push(r, v) == [r EXCEPT !.val = Append(@, v)]

Parser_peek(p) == p.tokens[p.current + 1]

Parser_is_at_end(p) == Parser_peek(p).token_type = "Eof"

\* advance: the parser after the call; the token it returns is previous(..)
Parser_advance(p) ==
    IF ~Parser_is_at_end(p) THEN [p EXCEPT !.current = @ + 1] ELSE p

\* &self.tokens[self.current - 1]
previous(p) == p.tokens[p.current]

\* self.advance() within a running result
step(r) == [r EXCEPT !.p = Parser_advance(@)]

check(p, token_type) ==
    IF Parser_is_at_end(p) THEN FALSE
    ELSE Parser_peek(p).token_type = token_type

check_identifier(p) == check(p, "Identifier")

check_identifier_value(p, value) ==
    IF Parser_is_at_end(p) THEN FALSE
    ELSE Parser_peek(p).token_type = "Identifier" /\ Parser_peek(p).text = value

\* an add_error that records nothing
Parser_add_error_dropped(p, code) == p

Parser_add_error(p, code) ==
    [p EXCEPT !.diagnostics =
        Append(@, Diagnostic(code, Parser_peek(p).line, Parser_peek(p).column))]

\* self.add_error(code, ..); return Err(())
fail(r, code) == [p |-> Parser_add_error(r.p, code), ok |-> FALSE, val |-> <<>>]

expect(r, token_type) ==
    IF ~r.ok THEN r
    ELSE IF check(r.p, token_type) THEN step(r) ELSE fail(r, "E2011")

expect_identifier(r) ==
    IF ~r.ok THEN r
    ELSE IF Parser_peek(r.p).token_type = "Identifier"
         THEN push(step(r), Parser_peek(r.p).text)
         ELSE fail(r, "E2002")

expect_string(r) ==
    IF ~r.ok THEN r
    ELSE IF Parser_peek(r.p).token_type = "StringLiteral"
         THEN push(step(r), Parser_peek(r.p).text)
         ELSE fail(r, "E2011")

\* the value a parse function returns in Ok(..), from the values v its steps
\* produced
build(kind, v) ==
    CASE kind = "List" -> v
      [] kind = "Some" -> Some(v[1])
      [] kind = "Ref" -> [t |-> "Ref", name |-> v[1]]
      [] kind = "Field" -> Field(v[1], v[2], v[3])
      [] kind = "Parameter" -> Parameter(v[1], v[2])
      [] kind = "TableDef" -> TableDef(v[1], v[2])
      [] kind = "Page" -> Page(v[1], v[2])
      [] kind = "Test" -> Test(v[1], v[2])
      [] kind = "FunctionDef" -> FunctionDef(v[1], v[2], v[3], v[4])
      [] kind = "ExternalFunction" -> ExternalFunction(v[1], v[2], v[3], v[4])
      [] kind \in {"Title", "Subtitle", "Text"} -> TextStmt(kind, v[1])
      [] kind \in {"Button", "Section"} -> Stmt(kind, v[1], None, None, v[2], None)
      [] kind = "Let" -> Let(v[1], v[2], v[3])
      [] kind = "If" -> If(v[1], v[2], v[3])
      [] kind = "Return" -> Return(v[1])
      [] kind = "Assign" -> Assign(v[1].name, v[2])
      [] kind = "CallStatement" -> CallStmt(v[1])
      [] kind = "FunctionCall" -> Call(v[1], v[2])
      [] kind = "ArrayLiteral" -> ArrayLiteral(v)
      [] kind = "FilterLiteral" -> FilterLiteral(v[1], v[2])
      [] kind = "Columns" -> [i \in 1..Len(v) |-> SortColumn(v[i], TRUE)]

\* Ok(build(..)) of a function that started at r and whose steps ended in s
yield(r, s, kind) ==
    IF s.ok THEN [p |-> s.p, ok |-> TRUE, val |-> Append(r.val, build(kind, s.val))]
    ELSE s

\* the node made of the two newest values, left the older one
build2(kind, op, left, right) ==
    CASE kind = "BinaryOp" -> BinOp(op, left, right)
      [] kind = "Chain" -> Chain(left, right)
      [] kind = "Where" -> Where(left, right)
      [] kind = "SortBy" -> SortBy(left, right)
      [] kind = "ColumnSelect" -> ColumnSelect(left, right)
      [] kind = "FieldAccess" -> FieldAccess(left, right)
      [] kind = "Index" -> Index(left, right)

\* expr = Node { left: expr, right } on the two newest values
combine(s, kind, op) ==
    IF s.ok
    THEN [s EXCEPT !.val =
            Append(SubSeq(@, 1, Len(@) - 2),
                   build2(kind, op, @[Len(@) - 1], @[Len(@)]))]
    ELSE s

\* the arms of parse_type that need no further token
TypeTokens ==
    [Int |-> "Int", Float |-> "Float", Number |-> "Float",
     String |-> "String", Text |-> "String", Date |-> "Date",
     Currency |-> "Currency", Bool |-> "Bool", Filter |-> "Filter"]

\* the match of parse_type on the token that advance() returned
type_of_token(r) ==
    LET token_type == previous(r.p).token_type
    IN  IF token_type \in DOMAIN TypeTokens
        THEN push(r, [t |-> TypeTokens[token_type], name |-> ""])
        ELSE IF token_type = "Ref"
             THEN yield(r, expect_identifier(fresh(r)), "Ref")
             ELSE fail(r, "E2003")

\* the token is consumed first and judged afterwards
parse_type(r) == IF ~r.ok THEN r ELSE type_of_token(step(r))

RECURSIVE parse_constraints_loop(_)
\* the match of parse_constraints on the next token
parse_constraint(r) ==
    LET token == Parser_peek(r.p)
    IN  CASE token.token_type = "Key" -> push(step(r), "Key")
          [] token.token_type = "Identifier" ->
                CASE token.text = "unique" -> push(step(r), "Unique")
                  [] token.text = "non_null" -> push(step(r), "NonNull")
                  [] OTHER -> fail(step(r), "E2012")
          [] OTHER -> fail(r, "E2012")

\* if !check(Comma) { break } advance()
more_constraints(r) ==
    IF r.ok /\ check(r.p, "Comma") THEN parse_constraints_loop(step(r)) ELSE r

parse_constraints_loop(r) == more_constraints(parse_constraint(r))

parse_constraints(r) == yield(r, parse_constraints_loop(fresh(r)), "List")

\* the optional [constraints] of parse_field
field_constraints(r) ==
    IF r.ok /\ check(r.p, "LeftBracket")
    THEN expect(parse_constraints(step(r)), "RightBracket")
    ELSE push(r, <<>>)

\* if check(Comma) { advance() }
skip_comma(r) == IF r.ok /\ check(r.p, "Comma") THEN step(r) ELSE r

parse_field(r) ==
    yield(r,
          skip_comma(field_constraints(parse_type(
              expect(expect_identifier(fresh(r)), "Colon")))),
          "Field")

RECURSIVE parse_fields_loop(_)
\* while !check(RightBrace) { fields.push(parse_field()?) }
parse_fields_loop(r) ==
    IF r.ok /\ ~check(r.p, "RightBrace")
    THEN parse_fields_loop(parse_field(r))
    ELSE r

parse_fields(r) == yield(r, parse_fields_loop(fresh(r)), "List")

parse_table_def(r) ==
    yield(r,
          expect(parse_fields(expect(expect_identifier(
              expect(fresh(r), "Table")), "LeftBrace")), "RightBrace"),
          "TableDef")

RECURSIVE parse_binary(_, _)
RECURSIVE parse_unary(_)
RECURSIVE parse_primary(_)
RECURSIVE parse_expression(_)

\* parse_or, parse_and, parse_equality, parse_comparison, parse_addition and
\* parse_multiplication, loosest first: the tokens each one loops on and the
\* BinaryOp each token stands for
BinaryLevels ==
    << [Or |-> "Or"],
       [And |-> "And"],
       [Equals |-> "Equal", NotEquals |-> "NotEqual"],
       [LessThan |-> "LessThan", LessThanEquals |-> "LessThanEqual",
        GreaterThan |-> "GreaterThan",
        GreaterThanEquals |-> "GreaterThanEqual"],
       [Plus |-> "Add", Minus |-> "Subtract"],
       [Star |-> "Multiply", Slash |-> "Divide", Percent |-> "Modulo"] >>

\* the operand parser of a level: the next tighter level, parse_unary at last
parse_operand(r, level) ==
    IF level = Len(BinaryLevels) THEN parse_unary(r)
    ELSE parse_binary(r, level + 1)

RECURSIVE parse_binary_loop(_, _)
\* while the next token is an operator of the level { left = BinaryOp{..} }
parse_binary_loop(r, level) ==
    IF r.ok /\ Parser_peek(r.p).token_type \in DOMAIN BinaryLevels[level]
    THEN parse_binary_loop(
             combine(parse_operand(step(r), level), "BinaryOp",
                     BinaryLevels[level][Parser_peek(r.p).token_type]),
             level)
    ELSE r

parse_binary(r, level) == parse_binary_loop(parse_operand(r, level), level)

parse_or(r) == parse_binary(r, 1)

\* the newest value, a column name, becomes a SortColumn
sort_column(r, ascending) ==
    [r EXCEPT !.val[Len(r.val)] = SortColumn(@, ascending)]

\* ascending = !check(Desc); an Asc or Desc token is consumed
sort_direction(r) ==
    IF ~r.ok THEN r
    ELSE IF check(r.p, "Asc") THEN sort_column(step(r), TRUE)
    ELSE IF check(r.p, "Desc") THEN sort_column(step(r), FALSE)
    ELSE sort_column(r, TRUE)

RECURSIVE sort_columns_loop(_)
more_sort_columns(r) ==
    IF r.ok /\ check(r.p, "Comma") THEN sort_columns_loop(step(r)) ELSE r

\* the inner loop of parse_where_sort: name [asc|desc] {, name [asc|desc]}
sort_columns_loop(r) == more_sort_columns(sort_direction(expect_identifier(r)))

parse_sort_columns(r) == yield(r, sort_columns_loop(fresh(r)), "List")

RECURSIVE parse_where_sort_loop(_)
parse_where_sort_loop(r) ==
    IF r.ok /\ check(r.p, "Where")
    THEN parse_where_sort_loop(combine(parse_or(step(r)), "Where", ""))
    ELSE IF r.ok /\ check_identifier_value(r.p, "sort")
         THEN parse_where_sort_loop(
                  combine(parse_sort_columns(expect(step(r), "By")), "SortBy", ""))
         ELSE r

parse_where_sort(r) == parse_where_sort_loop(parse_or(r))

RECURSIVE parse_chain_loop(_)
\* while check(Arrow) { left = Chain{left, right} }
parse_chain_loop(r) ==
    IF r.ok /\ check(r.p, "Arrow")
    THEN parse_chain_loop(combine(parse_where_sort(step(r)), "Chain", ""))
    ELSE r

parse_chain(r) == parse_chain_loop(parse_where_sort(r))

parse_expression(r) == parse_chain(r)

RECURSIVE parse_postfix_loop(_)
parse_postfix(r) == parse_postfix_loop(parse_primary(r))

\* Ok(Expr::UnaryOp { op, operand }) on the newest value
unary_node(r, op) ==
    IF r.ok THEN [r EXCEPT !.val[Len(r.val)] = UnOp(op, @)] ELSE r

parse_unary(r) ==
    IF ~r.ok THEN r
    ELSE IF check(r.p, "Not") THEN unary_node(parse_unary(step(r)), "Not")
    ELSE IF check(r.p, "Minus") THEN unary_node(parse_unary(step(r)), "Negate")
    ELSE parse_postfix(r)

RECURSIVE parse_columns_loop(_)
\* while check(Comma) { advance(); columns.push(expect_identifier()?) }
parse_columns_loop(r) ==
    IF r.ok /\ check(r.p, "Comma")
    THEN parse_columns_loop(expect_identifier(step(r)))
    ELSE r

\* first_col and the columns after it
parse_columns(r) ==
    yield(r, parse_columns_loop(expect_identifier(fresh(r))), "Columns")

\* what follows '[' in suffix position: column selection or index
parse_bracket_suffix(r) ==
    IF check_identifier(r.p)
    THEN IF check(Parser_advance(r.p), "Comma")
         THEN combine(expect(parse_columns(r), "RightBracket"), "ColumnSelect", "")
         ELSE IF check(Parser_advance(r.p), "RightBracket")
         THEN combine(step(yield(r, expect_identifier(fresh(r)), "Columns")),
                      "ColumnSelect", "")
         ELSE fail(step(r), "E2001")
    ELSE combine(expect(parse_expression(r), "RightBracket"), "Index", "")

parse_postfix_loop(r) ==
    IF r.ok /\ check(r.p, "Dot")
    THEN parse_postfix_loop(combine(expect_identifier(step(r)), "FieldAccess", ""))
    ELSE IF r.ok /\ check(r.p, "LeftBracket")
         THEN parse_postfix_loop(parse_bracket_suffix(step(r)))
         ELSE r

RECURSIVE parse_expression_list(_)
more_expressions(r) ==
    IF r.ok /\ check(r.p, "Comma") THEN parse_expression_list(step(r)) ELSE r

\* expr {, expr}: the loops of parse_arguments and of the array literal
parse_expression_list(r) == more_expressions(parse_expression(r))

parse_arguments(r) ==
    IF ~r.ok THEN r
    ELSE IF check(r.p, "RightParen") THEN push(r, <<>>)
    ELSE yield(r, parse_expression_list(fresh(r)), "List")

\* the match on the mode token that advance() returned
filter_mode_of_token(r) ==
    LET token_type == previous(r.p).token_type
    IN  CASE token_type = "Single" -> push(r, "Single")
          [] token_type = "Multi" -> push(r, "Multi")
          [] OTHER -> fail(r, "E2011")

filter_mode(r) == IF ~r.ok THEN r ELSE filter_mode_of_token(step(r))

\* the Filter arm of parse_primary: filter(column, single|multi)
parse_filter_literal(r) ==
    yield(r,
          expect(filter_mode(expect(expect_string(
              expect(step(fresh(r)), "LeftParen")), "Comma")), "RightParen"),
          "FilterLiteral")

\* the match of parse_primary on the next token
primary_of_token(r) ==
    LET token == Parser_peek(r.p)
    IN  CASE token.token_type = "IntLiteral" -> push(step(r), IntLit(token.text))
          [] token.token_type = "FloatLiteral" -> push(step(r), FloatLit(token.text))
          [] token.token_type = "StringLiteral" -> push(step(r), StrLit(token.text))
          [] token.token_type = "BoolLiteral" -> push(step(r), BoolLit(token.text))
          [] token.token_type = "Identifier" ->
                IF check(Parser_advance(r.p), "LeftParen")
                THEN yield(r,
                           expect(parse_arguments(step(expect_identifier(fresh(r)))),
                                  "RightParen"),
                           "FunctionCall")
                ELSE push(step(r), Id(token.text))
          [] token.token_type = "Underscore" -> push(step(r), Id("_"))
          [] token.token_type = "LeftParen" ->
                expect(parse_expression(step(r)), "RightParen")
          [] token.token_type = "LeftBracket" ->
                IF check(Parser_advance(r.p), "RightBracket")
                THEN push(step(step(r)), ArrayLiteral(<<>>))
                ELSE yield(r,
                           expect(parse_expression_list(step(fresh(r))),
                                  "RightBracket"),
                           "ArrayLiteral")
          [] token.token_type = "Filter" -> parse_filter_literal(r)
          [] OTHER -> fail(r, "E2001")

parse_primary(r) == IF ~r.ok THEN r ELSE primary_of_token(r)

RECURSIVE parse_statement(_)
RECURSIVE parse_statements_loop(_)
\* while !check(RightBrace) { body.push(parse_statement()?) }
parse_statements_loop(r) ==
    IF r.ok /\ ~check(r.p, "RightBrace")
    THEN parse_statements_loop(parse_statement(r))
    ELSE r

\* expect(LeftBrace)?; the statement loop; expect(RightBrace)?
parse_block(r) ==
    yield(r,
          expect(parse_statements_loop(expect(fresh(r), "LeftBrace")), "RightBrace"),
          "List")

\* if check(Colon) { advance(); Some(parse_type()?) } else { None }
let_type(r) ==
    IF r.ok /\ check(r.p, "Colon")
    THEN yield(r, parse_type(step(fresh(r))), "Some")
    ELSE push(r, None)

\* if check(Assign) { advance(); Some(parse_expression()?) } else { None }
let_value(r) ==
    IF r.ok /\ check(r.p, "Assign")
    THEN yield(r, parse_expression(step(fresh(r))), "Some")
    ELSE push(r, None)

\* a let needs a type annotation or an initial value
let_check(r) ==
    IF r.ok /\ r.val[2] = None /\ r.val[3] = None THEN fail(r, "E2004") ELSE r

\* if check(Else) { advance(); Some(block) } else { None }
else_branch(r) ==
    IF r.ok /\ check(r.p, "Else")
    THEN yield(r, parse_block(step(fresh(r))), "Some")
    ELSE push(r, None)

\* the Identifier arm of parse_statement, after its parse_expression
assign_or_call(r, e) ==
    IF ~e.ok THEN e
    ELSE IF e.val[1].k = "Identifier" /\ check(e.p, "Assign")
    THEN yield(r, parse_expression(step(e)), "Assign")
    ELSE IF e.val[1].k = "FunctionCall" THEN yield(r, e, "CallStatement")
    ELSE fail(e, "E2001")

\* the match of parse_statement on the next token
statement_of_token(r) ==
    LET token_type == Parser_peek(r.p).token_type
    IN  CASE token_type \in {"Title", "Subtitle", "Text"} ->
                yield(r, expect_string(step(fresh(r))), token_type)
          [] token_type \in {"Button", "Section"} ->
                yield(r, parse_block(expect_string(step(fresh(r)))), token_type)
          [] token_type = "Let" ->
                yield(r,
                      let_check(let_value(let_type(
                          expect_identifier(step(fresh(r)))))),
                      "Let")
          [] token_type = "If" ->
                yield(r,
                      else_branch(parse_block(parse_expression(step(fresh(r))))),
                      "If")
          [] token_type = "Return" ->
                yield(r, parse_expression(step(fresh(r))), "Return")
          [] token_type = "Identifier" ->
                assign_or_call(r, parse_expression(fresh(r)))
          [] OTHER -> fail(r, "E2001")

parse_statement(r) == IF ~r.ok THEN r ELSE statement_of_token(r)

parse_page(r) ==
    yield(r, parse_block(expect_identifier(expect(fresh(r), "Page"))), "Page")

parse_parameter(r) ==
    yield(r, parse_type(expect(expect_identifier(fresh(r)), "Colon")), "Parameter")

RECURSIVE parse_parameters_loop(_)
more_parameters(r) ==
    IF r.ok /\ check(r.p, "Comma") THEN parse_parameters_loop(step(r)) ELSE r

\* name : type {, name : type}
parse_parameters_loop(r) == more_parameters(parse_parameter(r))

parse_parameters(r) ==
    IF ~r.ok THEN r
    ELSE IF check(r.p, "RightParen") THEN push(r, <<>>)
    ELSE yield(r, parse_parameters_loop(fresh(r)), "List")

\* name ( parameters ) -> type, shared by the two kinds of function
parse_signature(r) ==
    parse_type(expect(expect(parse_parameters(
        expect(expect_identifier(r), "LeftParen")), "RightParen"), "Arrow"))

parse_function_def(r) ==
    yield(r, parse_block(parse_signature(expect(fresh(r), "Function"))),
          "FunctionDef")

parse_external_function(r) ==
    yield(r,
          expect_string(expect(parse_signature(
              expect(expect(fresh(r), "External"), "Function")), "From")),
          "ExternalFunction")

parse_test(r) ==
    yield(r, parse_block(expect_string(expect(fresh(r), "Test"))), "Test")

parse_program_item(r) ==
    LET token_type == Parser_peek(r.p).token_type
    IN  CASE token_type = "Table" -> parse_table_def(r)
          [] token_type = "Page" -> parse_page(r)
          [] token_type = "Function" -> parse_function_def(r)
          [] token_type = "External" -> parse_external_function(r)
          [] token_type = "Test" -> parse_test(r)
          [] OTHER -> fail(r, "E2001")

TopLevelKeywords == {"Page", "Table", "Function", "External", "Test"}

\* a synchronize that skips nothing
synchronize_stay(p) == p

RECURSIVE synchronize(_)
synchronize(p) ==
    IF Parser_is_at_end(p) THEN p
    ELSE IF Parser_peek(p).token_type \in TopLevelKeywords THEN p
         ELSE synchronize(Parser_advance(p))

\* Ok(item) => items.push(item), Err(_) => self.synchronize()
item_or_synchronize(r) ==
    IF r.ok THEN [r.p EXCEPT !.items = Append(@, r.val[1])]
    ELSE synchronize(r.p)

\* one iteration of the while loop of parse
parse_iteration(p) == item_or_synchronize(parse_program_item(Running(p)))

\* Result<Program, DiagnosticBag>
ParseResult(ok, items, diagnostics) ==
    [ok |-> ok, items |-> items, diagnostics |-> diagnostics]

\* the end of parse: Err(diagnostics) or Ok(Program { items })
parse_return(p) ==
    [p EXCEPT !.result =
        Some(IF has_errors(p.diagnostics)
             THEN ParseResult(FALSE, <<>>, p.diagnostics)
             ELSE ParseResult(TRUE, p.items, <<>>))]

RECURSIVE parse(_)
\* Parser::parse run to its return
parse(p) ==
    IF Parser_is_at_end(p) THEN parse_return(p) ELSE parse(parse_iteration(p))

---------------------------------------------------------------------------
(* The symbol table driven by an arbitrary caller *)

NoOp == [op |-> "new", name |-> "", sym |-> None, result |-> "", popped |-> None]

SemIdle ==
    /\ program = <<>>
    /\ phase = "idle"
    /\ idx = 0
    /\ errors = <<>>
    /\ result = None

\* no source is being compiled
\* IRBuilder::new(), with the module and the return value build() has not made
IRBuilder_new ==
    [symbol_table |-> SymbolTable_new, key_counter |-> 0, local_vars |-> <<>>,
     items |-> <<>>, result |-> None]

\* CodeGenerator::new(), with the files and the return value generate() has
\* not made
CodeGenerator_new ==
    [indent_level |-> 0, table_defs |-> <<>>, external_functions |-> <<>>,
     key_counter |-> 0, output_files |-> <<>>, result |-> None]

\* WTLangServer::new(client): no document, no handler running, and a client
\* that has sent and received nothing
WTLangServer_new ==
    [documents |-> <<>>, handlers |-> <<>>, client |-> <<>>]

\* no program is being generated and no editor is connected
HostIdle ==
    /\ codegen = CodeGenerator_new
    /\ server = WTLangServer_new

FrontIdle ==
    /\ lexer = Lexer_new(<<>>)
    /\ parser = Parser_new(<<>>)
    /\ exit = ""
    /\ builder = IRBuilder_new
    /\ HostIdle

InitSym ==
    /\ symbols = SymbolTable_new
    /\ lastOp = NoOp
    /\ SemIdle
    /\ FrontIdle

PushScope ==
    \E kind \in PushKinds :
        /\ Len(symbols.current_scopes) < MaxDepth
        /\ symbols' = push_scope(symbols, kind)
        /\ lastOp' = [NoOp EXCEPT !.op = "push_scope"]
        /\ UNCHANGED <<program, phase, idx, errors, result, lexer, parser, exit, builder, codegen, server>>

PopScope ==
    LET r == pop_scope(symbols)
    IN  /\ symbols' = r.table
        /\ lastOp' = [NoOp EXCEPT !.op = "pop_scope", !.popped = r.popped]
        /\ UNCHANGED <<program, phase, idx, errors, result, lexer, parser, exit, builder, codegen, server>>

Define ==
    \E name \in SymNames, ty \in Types, init \in BOOLEAN :
        LET sym == Symbol(name, ty, "Variable", init, TRUE)
            r == define(symbols, name, sym)
        IN  /\ symbols' = r.table
            /\ lastOp' = [NoOp EXCEPT !.op = "define", !.name = name,
                                      !.sym = Some(sym), !.result = r.result]
            /\ UNCHANGED <<program, phase, idx, errors, result, lexer, parser, exit, builder, codegen, server>>

MarkInitialized ==
    \E name \in SymNames :
        LET r == mark_initialized(symbols, name)
        IN  /\ symbols' = r.table
            /\ lastOp' = [NoOp EXCEPT !.op = "mark_initialized", !.name = name,
                                      !.result = r.result]
            /\ UNCHANGED <<program, phase, idx, errors, result, lexer, parser, exit, builder, codegen, server>>

NextSym == PushScope \/ PopScope \/ Define \/ MarkInitialized

SpecSym == InitSym /\ [][NextSym]_vars

---------------------------------------------------------------------------
(* SemanticAnalyzer::analyze as three loops over program.items *)

MaxItems == 2

\* expressions of the generated programs; "u" is bound by no declaration
SemReads == {Id("x"), Id("u")}

\* first statement of a generated body: a declaration of x, or none
SemDecls ==
    {<<>>, <<Let("x", None, Some(IntLit("1")))>>, <<Let("x", Some(TInt), None)>>}

\* second statement of a generated body
SemUses ==
    {<<>>,
     <<Let("y", None, Some(Id("u")))>>,
     <<Let("x", None, Some(IntLit("2")))>>,
     <<Assign("x", IntLit("1"))>>,
     <<Assign("u", Id("x"))>>,
     <<CallStmt(Call("f", <<Id("u")>>))>>,
     <<If(Id("x"), <<Return(Id("u"))>>, None)>>,
     <<If(Id("u"), <<Assign("x", IntLit("1"))>>, Some(<<Return(Id("x"))>>))>>,
     <<Forall("i", Id("u"), <<Return(Id("i"))>>)>>,
     <<Section("s", <<Let("x", None, Some(StrLit("s")))>>), Return(Id("x"))>>,
     <<Return(Id("u")), Return(Id("u"))>>}
    \cup {<<Return(e)>> : e \in SemReads}

SemBodies == {d \o b : d \in SemDecls, b \in SemUses}

SemItems ==
    {Page("P", b) : b \in SemBodies}
    \cup {FunctionDef("f", <<Parameter("x", TInt)>>, TInt, b) : b \in SemUses}
    \cup {TableDef("T", <<>>), TableDef("f", <<>>),
          ExternalFunction("T", <<>>, TString, "m"),
          Test("t", <<Return(Id("u"))>>)}

RECURSIVE SeqsUpTo(_, _)
\* the sequences over S of length at most n
SeqsUpTo(S, n) ==
    IF n = 0 THEN {<<>>}
    ELSE LET shorter == SeqsUpTo(S, n - 1)
         IN  shorter \cup {Append(q, e) : q \in shorter, e \in S}

SemPrograms == SeqsUpTo(SemItems, MaxItems)

InitSem ==
    /\ program \in SemPrograms
    /\ symbols = SymbolTable_new
    /\ errors = <<>>
    /\ phase = "declare"
    /\ idx = 1
    /\ result = None
    /\ lastOp = NoOp
    /\ FrontIdle

AnalyzerState == [symbols |-> symbols, errors |-> errors, depths |-> <<>>]

\* one iteration of the first loop
declare_item(st, item) ==
    CASE item.k = "TableDef" -> define_table(st, item)
      [] item.k = "FunctionDef" -> define_function_signature(st, item)
      [] item.k = "ExternalFunction" -> define_external_function(st, item)
      [] OTHER -> st

\* one loop for every body, in source order, instead of two
check_every_item(st, item) ==
    CASE item.k = "FunctionDef" -> check_function_body(st, item)
      [] item.k = "Page" -> check_page(st, item)
      [] item.k = "Test" -> check_test(st, item)
      [] OTHER -> st

\* one iteration of the second loop
check_function_item(st, item) ==
    IF item.k = "FunctionDef" THEN check_function_body(st, item) ELSE st

\* one iteration of the third loop
check_page_item(st, item) ==
    CASE item.k = "Page" -> check_page(st, item)
      [] item.k = "Test" -> check_test(st, item)
      [] OTHER -> st

PassStep(pass, st) ==
    /\ phase = pass
    /\ idx <= Len(program)
    /\ symbols' = st.symbols
    /\ errors' = st.errors
    /\ idx' = idx + 1
    /\ UNCHANGED <<program, phase, result, lastOp, lexer, parser, exit, builder, codegen, server>>

DeclareItem == PassStep("declare", declare_item(AnalyzerState, program[idx]))

CheckFunctionItem ==
    PassStep("functions", check_function_item(AnalyzerState, program[idx]))

CheckPageItem ==
    PassStep("pages", check_page_item(AnalyzerState, program[idx]))

NextPhase(p) ==
    CASE p = "declare" -> "functions"
      [] p = "functions" -> "pages"
      [] p = "pages" -> "finish"

\* a loop over program.items ends and the next one starts
NextPass ==
    /\ phase \in {"declare", "functions", "pages"}
    /\ idx > Len(program)
    /\ phase' = NextPhase(phase)
    /\ idx' = 1
    /\ UNCHANGED <<program, symbols, errors, result, lastOp, lexer, parser, exit, builder, codegen, server>>

Finish ==
    /\ phase = "finish"
    /\ result' = Some(analyze_result(errors))
    /\ phase' = "done"
    /\ UNCHANGED <<program, symbols, errors, idx, lastOp, lexer, parser, exit, builder, codegen, server>>

NextSem == DeclareItem \/ CheckFunctionItem \/ CheckPageItem \/ NextPass \/ Finish

SpecSem == InitSem /\ [][NextSem]_vars

---------------------------------------------------------------------------
(* check_command of wtlang-compiler: tokenize, parse, analyze. The source  *)
(* is a concatenation of fragments.                                        *)

MaxFrags == 4

\* "page a{"
FragPage == <<"p", "a", "g", "e", " ", "a", "{">>

\* "}"
FragClose == <<"}">>

\* "#"
FragHash == <<"#">>

\* "&"
FragAmp == <<"&">>

\* "|"
FragBar == <<"|">>

\* "table T{a:"
FragTable == <<"t", "a", "b", "l", "e", " ", "T", "{", "a", ":">>

\* "int "
FragInt == <<"i", "n", "t", " ">>

\* "return u "
FragReturn == <<"r", "e", "t", "u", "r", "n", " ", "u", " ">>

\* "92233720368547758070": ten times i64::MAX
FragBig == I64_MAX \o <<"0">>

Fragments ==
    {FragPage, FragClose, FragHash, FragAmp, FragBar, FragTable, FragInt,
     FragReturn, FragBig}

RECURSIVE Flatten(_)
Flatten(seqs) == IF seqs = <<>> THEN <<>> ELSE Head(seqs) \o Flatten(Tail(seqs))

Sources == {Flatten(fs) : fs \in SeqsUpTo(Fragments, MaxFrags)}

InitFront ==
    /\ lexer \in {Lexer_new(src) : src \in Sources}
    /\ parser = Parser_new(<<>>)
    /\ exit = ""
    /\ builder = IRBuilder_new
    /\ HostIdle
    /\ phase = "tokenize"
    /\ program = <<>>
    /\ symbols = SymbolTable_new
    /\ errors = <<>>
    /\ idx = 0
    /\ result = None
    /\ lastOp = NoOp

\* one iteration of the while loop of tokenize
TokenizeIteration ==
    /\ phase = "tokenize"
    /\ ~Lexer_is_at_end(lexer)
    /\ lexer' = tokenize_iteration(lexer)
    /\ UNCHANGED <<parser, exit, builder, phase, program, symbols, errors, idx, result, lastOp, codegen, server>>

TokenizeReturn ==
    /\ phase = "tokenize"
    /\ Lexer_is_at_end(lexer)
    /\ lexer' = tokenize_return(lexer)
    /\ phase' = "tokenized"
    /\ UNCHANGED <<parser, exit, builder, program, symbols, errors, idx, result, lastOp, codegen, server>>

\* lexer.tokenize().map_err(..)?; Parser::new(tokens)
CheckTokens ==
    /\ phase = "tokenized"
    /\ IF lexer.result[1].ok
       THEN /\ parser' = Parser_new(lexer.result[1].tokens)
            /\ phase' = "parse"
            /\ exit' = exit
       ELSE /\ exit' = "Lexical analysis failed"
            /\ phase' = "exit"
            /\ parser' = parser
    /\ UNCHANGED <<builder, lexer, program, symbols, errors, idx, result, lastOp, codegen, server>>

\* one iteration of the while loop of parse
ParseIteration ==
    /\ phase = "parse"
    /\ ~Parser_is_at_end(parser)
    /\ parser' = parse_iteration(parser)
    /\ UNCHANGED <<lexer, exit, builder, phase, program, symbols, errors, idx, result, lastOp, codegen, server>>

ParseReturn ==
    /\ phase = "parse"
    /\ Parser_is_at_end(parser)
    /\ parser' = parse_return(parser)
    /\ phase' = "parsed"
    /\ UNCHANGED <<lexer, exit, builder, program, symbols, errors, idx, result, lastOp, codegen, server>>

\* parser.parse().map_err(..)?; SemanticAnalyzer::new(); analyze(&program) starts
CheckProgram ==
    /\ phase = "parsed"
    /\ IF parser.result[1].ok
       THEN /\ program' = parser.result[1].items
            /\ phase' = "declare"
            /\ idx' = 1
            /\ exit' = exit
       ELSE /\ exit' = "Parsing failed"
            /\ phase' = "exit"
            /\ UNCHANGED <<program, idx>>
    /\ UNCHANGED <<builder, lexer, parser, symbols, errors, result, lastOp, codegen, server>>

\* if let Err(errors) = analyzer.analyze(&program) { return Err(..) }; Ok(())
CheckAnalysis ==
    /\ phase = "done"
    /\ lexer.result # None
    /\ exit' = IF result[1].ok THEN "Ok" ELSE "Semantic analysis failed"
    /\ phase' = "exit"
    /\ UNCHANGED <<builder, lexer, parser, program, symbols, errors, idx, result, lastOp, codegen, server>>

NextFront ==
    \/ TokenizeIteration
    \/ TokenizeReturn
    \/ CheckTokens
    \/ ParseIteration
    \/ ParseReturn
    \/ CheckProgram
    \/ DeclareItem
    \/ CheckFunctionItem
    \/ CheckPageItem
    \/ NextPass
    \/ Finish
    \/ CheckAnalysis

SpecFront == InitFront /\ [][NextFront]_vars

\* "\"": a quote
FragQuote == <<"\"">>

\* "//": the start of a comment
FragComment == <<"/", "/">>

\* a line end
FragNewline == <<"\n">>

\* "\\": a backslash
FragBackslash == <<"\\">>

\* "text "
FragText == <<"t", "e", "x", "t", " ">>

\* "hello"
FragHello == <<"h", "e", "l", "l", "o">>

TextFragments ==
    {FragPage, FragClose, FragQuote, FragComment, FragNewline, FragBackslash,
     FragAmp, FragText, FragHello}

TextSources == {Flatten(fs) : fs \in SeqsUpTo(TextFragments, MaxFrags)}

\* check_command on a source with strings, comments and line ends
InitText ==
    /\ lexer \in {Lexer_new(src) : src \in TextSources}
    /\ parser = Parser_new(<<>>)
    /\ exit = ""
    /\ builder = IRBuilder_new
    /\ HostIdle
    /\ phase = "tokenize"
    /\ program = <<>>
    /\ symbols = SymbolTable_new
    /\ errors = <<>>
    /\ idx = 0
    /\ result = None
    /\ lastOp = NoOp

SpecText == InitText /\ [][NextFront]_vars

---------------------------------------------------------------------------
(* ir/types.rs and ir/nodes.rs: the types and the nodes of the IR *)

\* Type; schema is None but for a Table
IRType(t, schema) == [t |-> t, schema |-> schema]

TypeError == IRType("Error", None)

TypeUnit == IRType("Unit", None)

TableSchema_new(name) == [name |-> name, fields |-> <<>>, constraints |-> <<>>]

TypeTable(schema) == IRType("Table", Some(schema))

PrimitiveTypes == {"Int", "Float", "String", "Bool", "Date", "Currency"}

is_numeric(ty) == ty.t \in {"Int", "Float", "Currency"}

is_table(ty) == ty.t = "Table"

\* Option<&TableSchema>
as_table(ty) == IF ty.t = "Table" THEN ty.schema ELSE None

\* impl From<&ast::Type> for Type: a table type gets a schema without fields
Type_from(ast_type) ==
    CASE ast_type.t \in PrimitiveTypes -> IRType(ast_type.t, None)
      [] ast_type.t = "Filter" -> TypeError
      [] ast_type.t = "Table" -> TypeTable(TableSchema_new(ast_type.name))

\* FieldType::Ref { table_name }: the variant that check_ref_field and
\* infer_field_access_type match on, for a field declared ref table_name
FieldType_Ref(table_name) == [t |-> "Ref", table_name |-> table_name]

\* impl From<&ast::Type> for FieldType; a type that is neither primitive
\* nor a ref panics
FieldType_from(ast_type) ==
    CASE ast_type.t \in PrimitiveTypes -> [t |-> ast_type.t, table_name |-> ""]
      [] ast_type.t = "Ref" -> FieldType_Ref(ast_type.name)
      [] OTHER -> [t |-> "panic", table_name |-> ""]

\* impl From<&ast::BinaryOp> for BinOp
BinOp_from(op) ==
    CASE op = "Add" -> "Add"
      [] op = "Subtract" -> "Sub"
      [] op = "Multiply" -> "Mul"
      [] op = "Divide" -> "Div"
      [] op = "Modulo" -> "Mod"
      [] op = "Equal" -> "Eq"
      [] op = "NotEqual" -> "Ne"
      [] op = "LessThan" -> "Lt"
      [] op = "LessThanEqual" -> "Le"
      [] op = "GreaterThan" -> "Gt"
      [] op = "GreaterThanEqual" -> "Ge"
      [] op = "And" -> "And"
      [] op = "Or" -> "Or"
      [] op = "Union" -> "Union"
      [] op = "Minus" -> "SetMinus"
      [] op = "Intersect" -> "Intersect"

\* impl From<&ast::UnaryOp> for UnOp
UnOp_from(op) == IF op = "Not" THEN "Not" ELSE "Neg"

\* IRExpr; name: variable, function, field or literal value; op: operator
\* or literal kind; args: the operand expressions in order
IRExpr(k, name, op, args, columns, ty, target_table) ==
    [k |-> k, name |-> name, op |-> op, args |-> args, columns |-> columns,
     ty |-> ty, target_table |-> target_table]

IRLiteral(kind, value, ty) == IRExpr("Literal", value, kind, <<>>, <<>>, ty, "")

IRVariable(name, ty) == IRExpr("Variable", name, "", <<>>, <<>>, ty, "")

IRFunctionCall(function, args, ty) ==
    IRExpr("FunctionCall", function, "", args, <<>>, ty, "")

\* k: a node over one or two operands that carries nothing else
IROperation(k, op, args, ty) == IRExpr(k, "", op, args, <<>>, ty, "")

IRFieldAccess(object, field, ty) ==
    IRExpr("FieldAccess", field, "", <<object>>, <<>>, ty, "")

IRRefNavigation(object, field, target_table, ty) ==
    IRExpr("RefNavigation", field, "", <<object>>, <<>>, ty, target_table)

\* SortBy and ColumnSelect
IRColumns(k, table, columns, ty) == IRExpr(k, "", "", <<table>>, columns, ty, "")

get_type(e) == e.ty

\* IRNode; ty is None but for a Binding, value is None or the expression
IRNode(k, name, style, ty, value, body, else_stmts) ==
    [k |-> k, name |-> name, style |-> style, ty |-> ty, value |-> value,
     body |-> body, else_branch |-> else_stmts]

\* IRItem; schema is None but for a TableDef
IRItem(k, name, params, return_type, body, schema, is_external, module) ==
    [k |-> k, name |-> name, params |-> params, return_type |-> return_type,
     body |-> body, schema |-> schema, is_external |-> is_external,
     module |-> module]

Param(name, ty) == [name |-> name, ty |-> ty]

---------------------------------------------------------------------------
(* ir/builder.rs: IRBuilder. A lowering maps the builder b to a result      *)
(* [b, ok, val]: the builder after the call, and Ok(val) or Err(val).      *)

Lowered(b, val) == [b |-> b, ok |-> TRUE, val |-> val]

\* Err(format!(..)): the kind of message and the name it mentions
Failed(b, msg, name) == [b |-> b, ok |-> FALSE, val |-> [msg |-> msg, name |-> name]]

\* self.local_vars.insert(name, ty)
local_vars_insert(b, name, ty) ==
    [b EXCEPT !.local_vars =
        [n \in DOMAIN @ \cup {name} |-> IF n = name THEN ty ELSE @[n]]]

ast_type_to_ir_type(ast_type) == Type_from(ast_type)

lookup_variable_type(b, name) ==
    IF name \in DOMAIN b.local_vars
    THEN Lowered(b, b.local_vars[name])
    ELSE LET symbol == lookup(b.symbol_table, name)
         IN  IF symbol # None
             THEN Lowered(b, ast_type_to_ir_type(symbol[1].symbol_type))
             ELSE Failed(b, "Variable not found", name)

lookup_function_return_type(b, name) ==
    LET symbol == lookup(b.symbol_table, name)
    IN  IF symbol # None
        THEN Lowered(b, ast_type_to_ir_type(symbol[1].symbol_type))
        ELSE Lowered(b, TypeUnit)

\* IRBuilder::infer_expr_type
builder_infer_expr_type(b, expr) ==
    CASE expr.k = "IntLiteral" -> Lowered(b, IRType("Int", None))
      [] expr.k = "FloatLiteral" -> Lowered(b, IRType("Float", None))
      [] expr.k = "StringLiteral" -> Lowered(b, IRType("String", None))
      [] expr.k = "BoolLiteral" -> Lowered(b, IRType("Bool", None))
      [] expr.k = "Identifier" -> lookup_variable_type(b, expr.name)
      [] OTHER -> Lowered(b, TypeError)

infer_binary_op_type(op, left_ty, right_ty) ==
    CASE op \in {"Add", "Subtract", "Multiply", "Divide", "Modulo"} ->
            IF is_numeric(left_ty) /\ is_numeric(right_ty) THEN left_ty
            ELSE TypeError
      [] op \in {"Equal", "NotEqual", "LessThan", "LessThanEqual",
                 "GreaterThan", "GreaterThanEqual", "And", "Or"} ->
            IRType("Bool", None)
      [] op \in {"Union", "Minus", "Intersect"} -> left_ty

\* schema.fields.iter().find(|f| f.name == field)
get_field(schema, field_name) ==
    LET found == {i \in 1..Len(schema.fields) : schema.fields[i].name = field_name}
    IN  IF found = {} THEN None
        ELSE Some(schema.fields[CHOOSE i \in found : \A j \in found : i <= j])

\* the type of a field whose FieldType is field_type
field_type_to_type(b, field_type) ==
    IF field_type.t = "Ref"
    THEN LET target_symbol == lookup(b.symbol_table, field_type.table_name)
         IN  IF target_symbol # None
             THEN ast_type_to_ir_type(target_symbol[1].symbol_type)
             ELSE TypeError
    ELSE IRType(field_type.t, None)

infer_field_access_type(b, object_ty, field) ==
    IF as_table(object_ty) # None
    THEN LET field_def == get_field(as_table(object_ty)[1], field)
         IN  IF field_def # None
             THEN Lowered(b, field_type_to_type(b, field_def[1].ty))
             ELSE Failed(b, "Field not found in table", field)
    ELSE Lowered(b, TypeError)

infer_index_type(object_ty) == TypeError

\* Option<RefInfo>
check_ref_field(b, object_ty, field) ==
    IF as_table(object_ty) = None THEN None
    ELSE LET field_def == get_field(as_table(object_ty)[1], field)
         IN  IF field_def = None THEN None
             ELSE IF field_def[1].ty.t # "Ref" THEN None
             ELSE LET target_symbol ==
                          lookup(b.symbol_table, field_def[1].ty.table_name)
                  IN  IF target_symbol = None THEN None
                      ELSE IF ~is_table(ast_type_to_ir_type(
                                            target_symbol[1].symbol_type))
                      THEN None
                      ELSE Some([target_table |-> field_def[1].ty.table_name,
                                 target_schema |->
                                     ast_type_to_ir_type(
                                         target_symbol[1].symbol_type).schema[1]])

(* A lowering that has callers is written over a running result r: it      *)
(* returns r when r is an Err, and else r with the lowered node appended to *)
(* r.val.                                                                  *)

\* a running result that has collected nothing
collect(r) == [r EXCEPT !.val = <<>>]

\* r with the Ok value of res appended, or the Err of res
push_result(r, res) ==
    IF res.ok THEN [b |-> res.b, ok |-> TRUE, val |-> Append(r.val, res.val)]
    ELSE res

\* r with the values collected by s appended as one Vec, or the Err of s
push_vec(r, s) == push_result(r, s)

\* the match of lower_function_call on call.name, the arguments lowered
call_of_name(b, name, args) ==
    CASE name \in {"show", "show_editable"} ->
            IF args = <<>>
            THEN Failed(b, "show requires at least a table argument", name)
            ELSE Lowered([b EXCEPT !.key_counter = @ + 1],
                         IRFunctionCall(name, args, TypeUnit))
      [] name = "load_csv" -> Lowered(b, IRFunctionCall(name, args, TypeError))
      [] name = "save_csv" -> Lowered(b, IRFunctionCall(name, args, TypeUnit))
      [] name \in {"where", "sort", "aggregate"} ->
            Lowered(b, IRFunctionCall(name, args,
                           IF args # <<>> THEN get_type(args[1]) ELSE TypeError))
      [] OTHER ->
            Lowered(b, IRFunctionCall(name, args,
                           lookup_function_return_type(b, name).val))

\* the match of the BinaryOp arm on op, both operands lowered
lower_binary_op(b, op, left_ir, right_ir) ==
    CASE op = "Union" ->
            Lowered(b, IROperation("Union", "", <<left_ir, right_ir>>,
                                   get_type(left_ir)))
      [] op = "Minus" /\ is_table(get_type(left_ir)) ->
            Lowered(b, IROperation("Minus", "", <<left_ir, right_ir>>,
                                   get_type(left_ir)))
      [] op = "Intersect" ->
            Lowered(b, IROperation("Intersect", "", <<left_ir, right_ir>>,
                                   get_type(left_ir)))
      [] OTHER ->
            Lowered(b, IROperation("BinaryOp", BinOp_from(op),
                                   <<left_ir, right_ir>>,
                                   infer_binary_op_type(op, get_type(left_ir),
                                                        get_type(right_ir))))

\* the regular field access, its type inferred
plain_field_access(object_ir, field, ty) ==
    IF ~ty.ok THEN ty ELSE Lowered(ty.b, IRFieldAccess(object_ir, field, ty.val))

\* the if let Some(ref_info) of the FieldAccess arm
field_access_node(b, object_ir, field, ref_info) ==
    IF ref_info # None
    THEN Lowered(b, IRRefNavigation(object_ir, field, ref_info[1].target_table,
                                    TypeTable(ref_info[1].target_schema)))
    ELSE plain_field_access(object_ir, field,
             infer_field_access_type(b, get_type(object_ir), field))

\* the FieldAccess arm, the object lowered
lower_field_access(b, object_ir, field) ==
    field_access_node(b, object_ir, field,
                      check_ref_field(b, get_type(object_ir), field))

\* the arms of lower_expr over operands, the operands lowered in order
lower_operation(b, expr, ops) ==
    CASE expr.k = "BinaryOp" -> lower_binary_op(b, expr.op, ops[1], ops[2])
      [] expr.k = "UnaryOp" ->
            Lowered(b, IROperation("UnaryOp", UnOp_from(expr.op), ops,
                                   get_type(ops[1])))
      [] expr.k = "FieldAccess" -> lower_field_access(b, ops[1], expr.name)
      [] expr.k = "Index" ->
            Lowered(b, IROperation("Index", "", ops,
                                   infer_index_type(get_type(ops[1]))))
      [] expr.k = "Chain" ->
            Lowered(b, IROperation("Chain", "", ops, get_type(ops[2])))
      [] expr.k = "ArrayLiteral" ->
            Lowered(b, IROperation("ArrayConstructor", "", ops, TypeError))
      [] expr.k = "Where" ->
            Lowered(b, IROperation("Where", "", ops, get_type(ops[1])))
      [] expr.k = "SortBy" ->
            Lowered(b, IRColumns("SortBy", ops[1], expr.columns,
                                 get_type(ops[1])))
      [] expr.k = "ColumnSelect" ->
            Lowered(b, IRColumns("ColumnSelect", ops[1], expr.columns,
                                 get_type(ops[1])))

\* the Variable of a name whose type was looked up
variable_node(name, ty) ==
    IF ~ty.ok THEN ty ELSE Lowered(ty.b, IRVariable(name, ty.val))

lower_identifier(b, name) ==
    IF name = "_" THEN Lowered(b, IRVariable("_", TypeError))
    ELSE variable_node(name, lookup_variable_type(b, name))

\* the call node, s the arguments lowered
call_node(r, name, s) ==
    IF ~s.ok THEN s ELSE push_result(r, call_of_name(s.b, name, s.val))

\* the node over operands, s the operands lowered
operation_node(r, expr, s) ==
    IF ~s.ok THEN s ELSE push_result(r, lower_operation(s.b, expr, s.val))

RECURSIVE lower_expr(_, _)
RECURSIVE lower_exprs(_, _)
\* exprs.iter().map(|e| self.lower_expr(e)).collect(): ends at the first Err
lower_exprs(r, exprs) ==
    IF ~r.ok \/ exprs = <<>> THEN r
    ELSE lower_exprs(lower_expr(r, Head(exprs)), Tail(exprs))

lower_function_call(r, call) ==
    IF ~r.ok THEN r
    ELSE call_node(r, call.name, lower_exprs(collect(r), call.args))

lower_expr(r, expr) ==
    IF ~r.ok THEN r
    ELSE CASE expr.k = "IntLiteral" ->
                 push_result(r, Lowered(r.b, IRLiteral("Int", expr.name,
                                                       IRType("Int", None))))
           [] expr.k = "FloatLiteral" ->
                 push_result(r, Lowered(r.b, IRLiteral("Float", expr.name,
                                                       IRType("Float", None))))
           [] expr.k = "StringLiteral" ->
                 push_result(r, Lowered(r.b, IRLiteral("String", expr.name,
                                                       IRType("String", None))))
           [] expr.k = "BoolLiteral" ->
                 push_result(r, Lowered(r.b, IRLiteral("Bool", expr.name,
                                                       IRType("Bool", None))))
           [] expr.k = "Identifier" ->
                 push_result(r, lower_identifier(r.b, expr.name))
           [] expr.k = "FunctionCall" -> lower_function_call(r, expr)
           [] expr.k = "FilterLiteral" ->
                 push_result(r, Lowered(r.b, IRLiteral("String", expr.name,
                                                       TypeError)))
           [] OTHER ->
                 operation_node(r, expr, lower_exprs(collect(r), expr.args))

\* the type of a Let: the annotation, else the inferred type of the value
let_binding_type(b, stmt) ==
    IF stmt.ty # None THEN Lowered(b, Type_from(stmt.ty[1]))
    ELSE IF stmt.value # None THEN builder_infer_expr_type(b, stmt.value[1])
    ELSE Failed(b, "requires either type annotation or initial value", stmt.name)

\* Option<Box<IRExpr>> of a Let
let_ir_value(r, stmt) ==
    IF stmt.value = None THEN collect(r)
    ELSE lower_expr(collect(r), stmt.value[1])

\* local_vars.insert(name, ty), then the Binding; v the value lowered
binding_node(r, stmt, ty, v) ==
    IF ~v.ok THEN v
    ELSE [b |-> local_vars_insert(v.b, stmt.name, ty), ok |-> TRUE,
          val |-> Append(r.val, IRNode("Binding", stmt.name, "", Some(ty),
                                       v.val, <<>>, None))]

\* the Let arm, ty its type
let_of_type(r, stmt, ty) ==
    IF ~ty.ok THEN ty ELSE binding_node(r, stmt, ty.val, let_ir_value(r, stmt))

lower_let(r, stmt) == let_of_type(r, stmt, let_binding_type(r.b, stmt))

\* a node over one expression and no body; v the expression lowered
expr_node(r, k, name, v) ==
    IF ~v.ok THEN v
    ELSE [b |-> v.b, ok |-> TRUE,
          val |-> Append(r.val, IRNode(k, name, "", None, v.val, <<>>, None))]

\* Button and Section; s the body lowered
container_node(r, k, name, s) ==
    IF ~s.ok THEN s
    ELSE [b |-> s.b, ok |-> TRUE,
          val |-> Append(r.val, IRNode(k, name, "", None, None, s.val, None))]

\* Conditional; s holds the condition, the then branch and the else branch
conditional_node(r, s) ==
    IF ~s.ok THEN s
    ELSE [b |-> s.b, ok |-> TRUE,
          val |-> Append(r.val, IRNode("Conditional", "", "", None,
                                       Some(s.val[1]), s.val[2], s.val[3]))]

\* Loop; s holds the iterable and the body
loop_node(r, variable, s) ==
    IF ~s.ok THEN s
    ELSE [b |-> s.b, ok |-> TRUE,
          val |-> Append(r.val, IRNode("Loop", variable, "", None,
                                       Some(s.val[1]), s.val[2], None))]

\* Some(v) of the one value s collected
some_of(s) == IF ~s.ok THEN s ELSE [s EXCEPT !.val = Some(@)]

TextStyles == [Title |-> "Title", Subtitle |-> "Subtitle", Text |-> "Normal"]

RECURSIVE lower_statement(_, _)
RECURSIVE lower_statements(_, _)
\* statements.iter().map(|s| self.lower_statement(s)).collect()
lower_statements(r, statements) ==
    IF ~r.ok \/ statements = <<>> THEN r
    ELSE lower_statements(lower_statement(r, Head(statements)), Tail(statements))

\* self.lower_statements(body)? after what s holds
lower_branch(s, body) ==
    IF ~s.ok THEN s ELSE push_vec(s, lower_statements(collect(s), body))

\* the else branch of an If, an Option<Vec<IRNode>>
lower_else(s, else_stmts) ==
    IF ~s.ok THEN s
    ELSE IF else_stmts = None THEN [s EXCEPT !.val = Append(@, None)]
    ELSE push_vec(s, some_of(lower_statements(collect(s), else_stmts[1])))

lower_if(r, stmt) ==
    conditional_node(r,
        lower_else(lower_branch(lower_expr(collect(r), stmt.value[1]), stmt.body),
                   stmt.else_branch))

\* the loop variable is not entered into local_vars
lower_forall(r, stmt) ==
    loop_node(r, stmt.name,
              lower_branch(lower_expr(collect(r), stmt.value[1]), stmt.body))

lower_statement(r, stmt) ==
    IF ~r.ok THEN r
    ELSE CASE stmt.k \in DOMAIN TextStyles ->
                 push_result(r, Lowered(r.b, IRNode("ShowText", stmt.name,
                                                    TextStyles[stmt.k], None,
                                                    None, <<>>, None)))
           [] stmt.k \in {"Button", "Section"} ->
                 container_node(r, stmt.k, stmt.name,
                                lower_statements(collect(r), stmt.body))
           [] stmt.k = "Let" -> lower_let(r, stmt)
           [] stmt.k = "Assign" ->
                 expr_node(r, "Assignment", stmt.name,
                           lower_expr(collect(r), stmt.value[1]))
           [] stmt.k = "If" -> lower_if(r, stmt)
           [] stmt.k = "Forall" -> lower_forall(r, stmt)
           [] stmt.k = "Return" ->
                 expr_node(r, "Return", "",
                           lower_expr(collect(r), stmt.value[1]))
           [] stmt.k = "FunctionCall" ->
                 expr_node(r, "ExprStmt", "",
                           lower_function_call(collect(r), stmt.value[1]))

\* the constraints a field adds to the schema; Validate and References add none
schema_constraints(field) ==
    LET kept == [Unique |-> "Unique", NonNull |-> "NonNull", Key |-> "PrimaryKey"]
    IN  [i \in 1..Len(field.constraints) |->
            IF field.constraints[i] \in DOMAIN kept
            THEN <<[k |-> kept[field.constraints[i]], field |-> field.name]>>
            ELSE <<>>]

RECURSIVE Flat(_)
\* the concatenation of a sequence of sequences
Flat(seqs) == IF seqs = <<>> THEN <<>> ELSE Head(seqs) \o Flat(Tail(seqs))

\* the TableDef item of a schema; a field that FieldType::from rejects panics
table_item(b, name, fields, constraints) ==
    IF \E i \in 1..Len(fields) : fields[i].ty.t = "panic"
    THEN Failed(b, "panic", name)
    ELSE Lowered(b, IRItem("TableDef", name, <<>>, None, <<>>,
                           Some([name |-> name, fields |-> fields,
                                 constraints |-> constraints]),
                           FALSE, ""))

lower_table_def(b, table_def) ==
    table_item(b, table_def.name,
        [i \in 1..Len(table_def.fields) |->
            [name |-> table_def.fields[i].name,
             ty |-> FieldType_from(table_def.fields[i].field_type)]],
        Flat([i \in 1..Len(table_def.fields) |->
                 Flat(schema_constraints(table_def.fields[i]))]))

\* the item of a body; s the body lowered
body_item(k, name, params, return_type, s) ==
    IF ~s.ok THEN s
    ELSE Lowered(s.b, IRItem(k, name, params, return_type, s.val, None, FALSE, ""))

\* self.local_vars.clear()
local_vars_clear(b) == [b EXCEPT !.local_vars = <<>>]

lower_page(b, page) ==
    body_item("PageDef", page.name, <<>>, None,
              lower_statements(Lowered(local_vars_clear(b), <<>>), page.body))

lower_params(params) ==
    [i \in 1..Len(params) |-> Param(params[i].name, Type_from(params[i].param_type))]

RECURSIVE insert_params(_, _)
\* for param in &params { self.local_vars.insert(..) }
insert_params(b, params) ==
    IF params = <<>> THEN b
    ELSE insert_params(local_vars_insert(b, Head(params).name, Head(params).ty),
                       Tail(params))

lower_function_def(b, func) ==
    body_item("FunctionDef", func.name, lower_params(func.params),
              Some(Type_from(func.return_type)),
              lower_statements(
                  Lowered(insert_params(local_vars_clear(b),
                                        lower_params(func.params)), <<>>),
                  func.body))

lower_external_function(b, ext_func) ==
    Lowered(b, IRItem("FunctionDef", ext_func.name, lower_params(ext_func.params),
                      Some(Type_from(ext_func.return_type)), <<>>, None, TRUE,
                      ext_func.module))

lower_test(b, test) ==
    body_item("TestDef", test.name, <<>>, None,
              lower_statements(Lowered(local_vars_clear(b), <<>>), test.body))

\* the match of build on the item
lower_item(b, item) ==
    CASE item.k = "TableDef" -> lower_table_def(b, item)
      [] item.k = "Page" -> lower_page(b, item)
      [] item.k = "FunctionDef" -> lower_function_def(b, item)
      [] item.k = "ExternalFunction" -> lower_external_function(b, item)
      [] item.k = "Test" -> lower_test(b, item)

RECURSIVE analyze_loop(_, _, _)
\* one of the three loops of analyze over program.items
\* (Len(st.errors) < 0 never holds: it has the analyzer of the previous
\* iteration evaluated before the next one starts)
analyze_loop(st, items, pass) ==
    IF items = <<>> \/ Len(st.errors) < 0 THEN st
    ELSE analyze_loop(
             CASE pass = "declare" -> declare_item(st, Head(items))
               [] pass = "functions" -> check_function_item(st, Head(items))
               [] pass = "pages" -> check_page_item(st, Head(items)),
             Tail(items), pass)

\* SemanticAnalyzer::new().analyze(program), the analyzer it leaves
analyze(prog) ==
    analyze_loop(
        analyze_loop(
            analyze_loop([symbols |-> SymbolTable_new, errors |-> <<>>,
                          depths |-> <<>>],
                         prog, "declare"),
            prog, "functions"),
        prog, "pages")

\* what build() returns: Ok(ir_module), Err(message), or a panic
BuildResult(k, items, error) == [k |-> k, items |-> items, error |-> error]

NoError == [msg |-> "", name |-> ""]

\* a build that leaves a failing item out and goes on with the next one
push_item_skip(r) ==
    IF r.ok THEN [r.b EXCEPT !.items = Append(@, r.val)] ELSE r.b

\* ir_module.items.push(self.lower_..(item)?)
push_item(r) ==
    IF r.ok THEN [r.b EXCEPT !.items = Append(@, r.val)]
    ELSE [r.b EXCEPT !.result =
             Some(BuildResult(IF r.val.msg = "panic" THEN "Panic" ELSE "Err",
                              <<>>, r.val))]

---------------------------------------------------------------------------
(* IRBuilder::build on a Program: the analysis, then one step per item *)

\* table T { a: int [key] r: ref T }
TableT ==
    TableDef("T", <<Field("a", TInt, <<"Key">>),
                    Field("r", [t |-> "Ref", name |-> "T"], <<"NonNull">>)>>)

\* table F { a: filter }
TableF == TableDef("F", <<Field("a", [t |-> "Filter", name |-> ""], <<>>)>>)

\* external function g(): T from "m"
ExternalG == ExternalFunction("g", <<>>, TTable("T"), "m")

\* the declarations a generated program starts with
BuildDecls == {<<>>, <<TableT>>, <<TableT, ExternalG>>, <<TableF>>}

\* the bodies of the generated functions f(x); x is an int or a table T,
\* y is bound to the table T by a let without annotation
BuildFunctionBodies ==
    {<<Return(BinOp("Subtract", Id("x"), Id("x")))>>,
     <<Return(BinOp("Subtract", Id("T"), Id("T")))>>,
     <<Let("y", None, Some(Id("T"))), Return(FieldAccess(Id("y"), "a"))>>,
     <<Let("y", None, Some(Id("T"))), Return(FieldAccess(Id("y"), "r"))>>,
     <<Return(FieldAccess(Id("x"), "a"))>>,
     <<Return(FieldAccess(Id("x"), "r"))>>,
     <<Forall("i", Id("x"), <<Return(Id("i"))>>)>>,
     <<Return(Index(Id("x"), IntLit("0")))>>,
     <<Return(Id("x"))>>}

\* the bodies of the generated pages; u is bound by no declaration
BuildPageBodies ==
    {<<Let("y", None, Some(Call("load_csv", <<Id("T"), StrLit("u.csv")>>)))>>,
     <<Let("y", None, Some(ArrayLiteral(<<IntLit("1")>>)))>>,
     <<Let("y", Some(TTable("T")), Some(Call("g", <<>>))),
       Return(FieldAccess(Id("y"), "r"))>>,
     <<Return(Id("u"))>>,
     <<CallStmt(Call("show", <<>>))>>,
     <<Let("n", None, Some(IntLit("2"))),
       Return(BinOp("Subtract", Id("n"), IntLit("1")))>>,
     <<TextStmt("Title", "t"),
       Section("s", <<Let("n", Some(TInt), None)>>)>>,
     <<If(BoolLit("true"), <<CallStmt(Call("show", <<Id("T")>>))>>,
          Some(<<Button("b", <<Assign("T", Id("T"))>>)>>))>>,
     <<Return(FieldAccess(Id("T"), "a"))>>,
     <<Let("z", None, None)>>,
     <<Return(Where(Id("T"), BoolLit("true"))),
       Return(SortBy(Id("T"), <<SortColumn("a", TRUE)>>)),
       Return(ColumnSelect(Id("T"), <<SortColumn("a", TRUE)>>))>>,
     <<Let("q", None, Some(FilterLiteral("a", "Single"))),
       Return(Chain(Id("T"), Call("sort", <<Id("T")>>))),
       Return(UnOp("Not", BoolLit("true")))>>}

BuildUnits ==
    {FunctionDef("f", <<Parameter("x", ty)>>, TInt, body) :
        ty \in {TInt, TTable("T")}, body \in BuildFunctionBodies}
    \cup {Page("P", body) : body \in BuildPageBodies}
    \cup {Test("t", <<Return(IntLit("1"))>>)}

BuildPrograms == {d \o q : d \in BuildDecls, q \in SeqsUpTo(BuildUnits, MaxItems)}

InitBuild ==
    /\ program \in BuildPrograms
    /\ symbols = SymbolTable_new
    /\ errors = <<>>
    /\ phase = "build"
    /\ idx = 0
    /\ result = None
    /\ lastOp = NoOp
    /\ FrontIdle

\* analyzer.analyze(program).map_err(..)?; self.symbol_table = ..clone();
\* IRModule::new(..)
BuildAnalyze ==
    /\ phase = "build"
    /\ symbols' = analyze(program).symbols
    /\ errors' = analyze(program).errors
    /\ result' = Some(analyze_result(errors'))
    /\ IF errors' = <<>>
       THEN /\ builder' = [builder EXCEPT !.symbol_table = symbols']
            /\ phase' = "lower"
            /\ idx' = 1
       ELSE /\ builder' = [builder EXCEPT !.result =
                              Some(BuildResult("Err", <<>>,
                                               [msg |-> "semantic", name |-> ""]))]
            /\ phase' = "built"
            /\ idx' = idx
    /\ UNCHANGED <<program, lastOp, lexer, parser, exit, codegen, server>>

\* one iteration of for item in &program.items
LowerItem ==
    /\ phase = "lower"
    /\ idx <= Len(program)
    /\ builder' = push_item(lower_item(builder, program[idx]))
    /\ IF builder'.result = None
       THEN /\ idx' = idx + 1
            /\ phase' = phase
       ELSE /\ idx' = idx
            /\ phase' = "built"
    /\ UNCHANGED <<program, symbols, errors, result, lastOp, lexer, parser, exit, codegen, server>>

\* Ok(ir_module)
BuildReturn ==
    /\ phase = "lower"
    /\ idx > Len(program)
    /\ builder' = [builder EXCEPT !.result =
                      Some(BuildResult("Ok", builder.items, NoError))]
    /\ phase' = "built"
    /\ UNCHANGED <<program, symbols, errors, idx, result, lastOp, lexer, parser, exit, codegen, server>>

NextBuild == BuildAnalyze \/ LowerItem \/ BuildReturn

SpecBuild == InitBuild /\ [][NextBuild]_vars

---------------------------------------------------------------------------
(* check_command on the scenarios of the specification: a source is a     *)
(* sequence of complete items.                                            *)

\* table User { id: int [key] name: string }
FragUserTable ==
    <<"t", "a", "b", "l", "e", " ", "U", "s", "e", "r", " ", "{", " ", "i",
      "d", ":", " ", "i", "n", "t", " ", "[", "k", "e", "y", "]", " ", "n",
      "a", "m", "e", ":", " ", "s", "t", "r", "i", "n", "g", " ", "}">>

\* page P { let u: table(User) = load_csv(User, "u.csv") }
FragUserPage ==
    <<"p", "a", "g", "e", " ", "P", " ", "{", " ", "l", "e", "t", " ", "u",
      ":", " ", "t", "a", "b", "l", "e", "(", "U", "s", "e", "r", ")", " ",
      "=", " ", "l", "o", "a", "d", "_", "c", "s", "v", "(", "U", "s", "e",
      "r", ",", " ", "\"", "u", ".", "c", "s", "v", "\"", ")", " ", "}">>

\* page P { let u = load_csv(User, "u.csv") }
FragUserPageInferred ==
    <<"p", "a", "g", "e", " ", "P", " ", "{", " ", "l", "e", "t", " ", "u",
      " ", "=", " ", "l", "o", "a", "d", "_", "c", "s", "v", "(", "U", "s",
      "e", "r", ",", " ", "\"", "u", ".", "c", "s", "v", "\"", ")", " ",
      "}">>

\* page a{return t[a]}
FragSelectOne ==
    <<"p", "a", "g", "e", " ", "a", "{", "r", "e", "t", "u", "r", "n", " ",
      "t", "[", "a", "]", "}">>

\* page a{return t[a, b]}
FragSelectTwo ==
    <<"p", "a", "g", "e", " ", "a", "{", "r", "e", "t", "u", "r", "n", " ",
      "t", "[", "a", ",", " ", "b", "]", "}">>

\* page a{return t[0]}
FragIndexLiteral ==
    <<"p", "a", "g", "e", " ", "a", "{", "r", "e", "t", "u", "r", "n", " ",
      "t", "[", "0", "]", "}">>

\* page a{return t[x+1]}
FragIndexExpr ==
    <<"p", "a", "g", "e", " ", "a", "{", "r", "e", "t", "u", "r", "n", " ",
      "t", "[", "x", "+", "1", "]", "}">>

\* page a{forall i in t{return i}}
FragForall ==
    <<"p", "a", "g", "e", " ", "a", "{", "f", "o", "r", "a", "l", "l", " ",
      "i", " ", "i", "n", " ", "t", "{", "r", "e", "t", "u", "r", "n", " ",
      "i", "}", "}">>

\* page a{title "s" subtitle "s" text "s" button "b"{return x}
\*        section "s"{let y = x} if x{x = 1}else{f(x)}}   (on one line)
FragForms ==
    <<"p", "a", "g", "e", " ", "a", "{", "t", "i", "t", "l", "e", " ", "\"",
      "s", "\"", " ", "s", "u", "b", "t", "i", "t", "l", "e", " ", "\"", "s",
      "\"", " ", "t", "e", "x", "t", " ", "\"", "s", "\"", " ", "b", "u", "t",
      "t", "o", "n", " ", "\"", "b", "\"", "{", "r", "e", "t", "u", "r", "n",
      " ", "x", "}", " ", "s", "e", "c", "t", "i", "o", "n", " ", "\"", "s",
      "\"", "{", "l", "e", "t", " ", "y", " ", "=", " ", "x", "}", " ", "i",
      "f", " ", "x", "{", "x", " ", "=", " ", "1", "}", "e", "l", "s", "e",
      "{", "f", "(", "x", ")", "}", "}">>

\* page a{let x = 1 if x -> f(_){x = x -> f(_)} return x -> f(_)}
FragChain ==
    <<"p", "a", "g", "e", " ", "a", "{", "l", "e", "t", " ", "x", " ", "=",
      " ", "1", " ", "i", "f", " ", "x", " ", "-", ">", " ", "f", "(", "_",
      ")", "{", "x", " ", "=", " ", "x", " ", "-", ">", " ", "f", "(", "_",
      ")", "}", " ", "r", "e", "t", "u", "r", "n", " ", "x", " ", "-", ">",
      " ", "f", "(", "_", ")", "}">>

ScenarioFragments ==
    {FragUserTable, FragUserPage, FragUserPageInferred, FragSelectOne,
     FragSelectTwo, FragIndexLiteral, FragIndexExpr, FragForall, FragForms,
     FragChain}

\* the items of a source are separated by a line end
RECURSIVE Lines(_)
Lines(seqs) ==
    IF seqs = <<>> THEN <<>> ELSE Head(seqs) \o <<"\n">> \o Lines(Tail(seqs))

ScenarioSources == {Lines(fs) : fs \in SeqsUpTo(ScenarioFragments, MaxItems)}

\* check_command on a scenario source
InitScenario ==
    /\ lexer \in {Lexer_new(src) : src \in ScenarioSources}
    /\ parser = Parser_new(<<>>)
    /\ exit = ""
    /\ builder = IRBuilder_new
    /\ HostIdle
    /\ phase = "tokenize"
    /\ program = <<>>
    /\ symbols = SymbolTable_new
    /\ errors = <<>>
    /\ idx = 0
    /\ result = None
    /\ lastOp = NoOp

SpecScenario == InitScenario /\ [][NextFront]_vars

---------------------------------------------------------------------------
(* Claims about the symbol table, checked under SpecSym *)

Depth(t) == Len(t.current_scopes)

\* the names some scope of the table's own stack, or its global scope, holds
DefinedOnStack(t) ==
    {n \in SymNames :
        \/ n \in DOMAIN t.global.symbols
        \/ \E i \in 1..Depth(t) : n \in DOMAIN t.current_scopes[i].symbols}

\* the names lookup resolves from the current scope
Visible(t) == {n \in SymNames : lookup(t, n) # None}

\* first match scanning the stack itself from the top down, then global
StackScan(t, name) ==
    LET i == InnermostHolding(t, name)
    IN  IF i > 0 THEN lookup_local(t.current_scopes[i], name)
        ELSE lookup_local(t.global, name)

RECURSIVE ChainLen(_)
\* number of parent links above a scope: 0 for the global scope
ChainLen(scope) ==
    IF scope.parent = None THEN 0 ELSE 1 + ChainLen(scope.parent[1])

RECURSIVE ChainView(_, _, _)
\* the binding of name held by the scope at the given level of the parent
\* chain that starts at scope (level 0 is the global scope), shadowed or not
ChainView(scope, level, name) ==
    IF ChainLen(scope) = level
    THEN lookup_local(scope, name)
    ELSE IF scope.parent = None
         THEN None
         ELSE ChainView(scope.parent[1], level, name)

\* C1: after mark_initialized(name) returned Ok, lookup(name) from the
\* current scope reports is_initialized = true at once, however many scopes
\* are pushed above the defining one; and UndefinedVariable is returned only
\* when no active scope and not the global scope defines name.
C1_MarkedIsSeenInitialized ==
    lastOp.op = "mark_initialized" =>
        /\ lastOp.result = "Ok" =>
              /\ lookup(symbols, lastOp.name) # None
              /\ lookup(symbols, lastOp.name)[1].is_initialized
        /\ lastOp.result = "UndefinedVariable" =>
              lastOp.name \notin DefinedOnStack(symbols)

\* C2: define fails with Redefinition exactly when the innermost active
\* scope (global when none is pushed) already holds the name; a successful
\* define makes lookup return the new binding, also over an ancestor's
\* binding of the same name; popping the scope gives the ancestor's binding
\* back.
C2_RedefinitionOnlyInSameScope ==
    [][/\ lastOp'.op = "define" =>
            /\ lastOp'.result = "Redefinition" <=>
                   lastOp'.name \in DOMAIN current_scope(symbols).symbols
            /\ lastOp'.result = "Redefinition" => symbols' = symbols
            /\ lastOp'.result = "Ok" =>
                   lookup(symbols', lastOp'.name) = lastOp'.sym
       /\ (lastOp'.op = "pop_scope" /\ Depth(symbols) > 0) =>
            \A n \in SymNames :
                LET below == [symbols EXCEPT !.current_scopes =
                                 SubSeq(@, 1, Len(@) - 1)]
                IN  IF StackScan(below, n) = None
                    THEN lookup(symbols', n) = None
                    ELSE /\ lookup(symbols', n) # None
                         /\ lookup(symbols', n)[1].symbol_type =
                                StackScan(below, n)[1].symbol_type
      ]_vars

\* a nested scope has just shadowed an ancestor's binding of another type
C2_Witness ==
    /\ lastOp.op = "define"
    /\ lastOp.result = "Ok"
    /\ Depth(symbols) = 2
    /\ lookup_local(symbols.current_scopes[1], lastOp.name) # None
    /\ lookup_local(symbols.current_scopes[1], lastOp.name)[1].symbol_type
           # lastOp.sym[1].symbol_type
    /\ lookup(symbols, lastOp.name) = lastOp.sym

\* C3: bindings do not leak: lookup finds exactly the names defined in the
\* global scope or in a scope still on the stack; a define adds its name,
\* a pop removes what only the popped scope held, push and mark_initialized
\* change nothing.
C3_NoLeak ==
    [][/\ Visible(symbols') = DefinedOnStack(symbols')
       /\ lastOp'.op = "define" =>
            DefinedOnStack(symbols') = DefinedOnStack(symbols) \cup {lastOp'.name}
       /\ lastOp'.op = "pop_scope" =>
            DefinedOnStack(symbols') =
                {n \in SymNames :
                    \/ n \in DOMAIN symbols.global.symbols
                    \/ \E i \in 1..(Depth(symbols) - 1) :
                           n \in DOMAIN symbols.current_scopes[i].symbols}
       /\ lastOp'.op \in {"push_scope", "mark_initialized"} =>
            DefinedOnStack(symbols') = DefinedOnStack(symbols)
      ]_vars

\* a page scope that defined x was popped and a sibling page scope pushed:
\* x is not visible from it
C3_Witness ==
    /\ lastOp.op = "pop_scope"
    /\ lastOp.popped # None
    /\ "x" \in DOMAIN lastOp.popped[1].symbols
    /\ Depth(symbols) = 0
    /\ lookup(symbols, "x") = None

\* C4: is_initialized never goes back: a binding the current scope's chain
\* shows as initialized is still shown as initialized after any push_scope,
\* pop_scope, define or mark_initialized that leaves its scope alive.
C4_InitializedIsMonotonic ==
    [][\A level \in 0..(MaxDepth + 1), n \in SymNames :
          LET before == ChainView(current_scope(symbols), level, n)
              after == ChainView(current_scope(symbols'), level, n)
          IN  (before # None /\ before[1].is_initialized /\ after # None)
                  => after[1].is_initialized
      ]_vars

\* an initialized binding in an outer scope, seen through two nested scopes
C4_Witness ==
    /\ Depth(symbols) = 3
    /\ lookup_local(symbols.current_scopes[1], "x") # None
    /\ lookup(symbols, "x") # None
    /\ lookup(symbols, "x")[1].is_initialized
    /\ lastOp.op = "mark_initialized"

---------------------------------------------------------------------------
(* Claims about the semantic analyzer, checked under SpecSem *)

RECURSIVE ExprReads(_)
RECURSIVE ExprsReads(_)
\* the identifiers an expression reads, by the grammar alone
ExprsReads(exprs) ==
    IF exprs = <<>> THEN {} ELSE ExprReads(Head(exprs)) \cup ExprsReads(Tail(exprs))

ExprReads(expr) ==
    IF expr.k = "Identifier" THEN {expr.name} ELSE ExprsReads(expr.args)

OptReads(value) == IF value = None THEN {} ELSE ExprReads(value[1])

RECURSIVE UnboundInBlock(_, _)
\* lexical scoping by the language rules: the names read in a block at a
\* point where env, the names bound so far in the enclosing scopes and the
\* global scope, does not hold them
UnboundInBlock(stmts, env) ==
    IF stmts = <<>> THEN {}
    ELSE LET s == Head(stmts)
             here ==
                 CASE s.k \in {"Let", "Assign", "Return", "FunctionCall"} ->
                        OptReads(s.value) \ env
                   [] s.k = "If" ->
                        (OptReads(s.value) \ env)
                        \cup UnboundInBlock(s.body, env)
                        \cup (IF s.else_branch = None THEN {}
                              ELSE UnboundInBlock(s.else_branch[1], env))
                   [] s.k = "Forall" ->
                        (OptReads(s.value) \ env)
                        \cup UnboundInBlock(s.body, env \cup {s.name})
                   [] s.k \in {"Section", "Button"} -> UnboundInBlock(s.body, env)
                   [] OTHER -> {}
             env1 == IF s.k = "Let" THEN env \cup {s.name} ELSE env
         IN  here \cup UnboundInBlock(Tail(stmts), env1)

GlobalNames(prog) ==
    {prog[i].name : i \in {j \in 1..Len(prog) :
        prog[j].k \in {"TableDef", "FunctionDef", "ExternalFunction"}}}

UnboundReads(prog) ==
    UNION {LET it == prog[i]
               params == {it.params[j].name : j \in 1..Len(it.params)}
           IN  IF it.k \in {"Page", "Test", "FunctionDef"}
               THEN UnboundInBlock(it.body, GlobalNames(prog) \cup params)
               ELSE {}
           : i \in 1..Len(prog)}

ErrorsOf(e, name) ==
    {i \in 1..Len(errors) : errors[i].e = e /\ errors[i].name = name}

\* C5: every identifier read in an expression of a page, function or test
\* body where no enclosing scope and not the global scope binds it is
\* reported as UndefinedVariable, whatever the position of the expression
\* (let initializer, assignment value, condition, iterable, return value,
\* call argument).
C5_UnboundReadIsReported ==
    phase = "done" =>
        \A n \in UnboundReads(program) : ErrorsOf("UndefinedVariable", n) # {}

\* the statements Return(u) of the bodies of a program: u is bound nowhere
ReturnsOfUnbound(prog) ==
    UNION {{<<i, j>> : j \in {m \in 1..Len(prog[i].body) :
                                 prog[i].body[m] = Return(Id("u"))}}
           : i \in {m \in 1..Len(prog) :
                       prog[m].k \in {"Page", "Test", "FunctionDef"}}}

IsPrefix(p, q) == Len(p) <= Len(q) /\ SubSeq(q, 1, Len(p)) = p

\* C6: analyze() returns Ok exactly when no error was recorded in any pass
\* and otherwise every recorded error in the order recorded; errors are
\* only ever appended, and an error in one item or statement does not stop
\* the checking of the later ones (each later Return(u) is still reported).
C6_AnalyzeReturnsAllErrors ==
    /\ [](phase = "done" =>
            /\ result # None
            /\ result[1].ok <=> errors = <<>>
            /\ ~result[1].ok => result[1].errors = errors
            /\ Cardinality(ErrorsOf("UndefinedVariable", "u"))
                   >= Cardinality(ReturnsOfUnbound(program)))
    /\ [][IsPrefix(errors, errors')]_vars

\* two items, each with an error, both reported, the first one first
C6_Witness ==
    /\ phase = "done"
    /\ Len(program) = 2
    /\ program[1] = Page("P", <<Let("x", Some(TInt), None), Return(Id("x"))>>)
    /\ program[2] = Test("t", <<Return(Id("u"))>>)
    /\ ~result[1].ok
    /\ result[1].errors = <<UninitializedVariable("x"), UndefinedVariable("u")>>

---------------------------------------------------------------------------
(* Claims about the lexer, the parser and the front end *)

\* the places of the source holding the character ch
PlacesOf(input, ch) == {i \in 1..Len(input) : input[i] = ch}

\* C7: on invalid input the lexer records one diagnostic for the offending
\* character and resumes at the character directly after it: when tokenize
\* returns, every invalid character '#' of the source has its own E1003
\* diagnostic at its place, and no other character was dropped, so every
\* '}' of the source has its RightBrace token at its place. (The sources
\* are one line long: the column of a character is its place.)
C7_SkipsOnlyTheOffendingCharacter ==
    phase = "tokenized" =>
        /\ \A i \in PlacesOf(lexer.input, "#") :
              \E d \in 1..Len(lexer.diagnostics) :
                 lexer.diagnostics[d] = Diagnostic("E1003", 1, i)
        /\ \A i \in PlacesOf(lexer.input, "}") :
              \E t \in 1..Len(lexer.tokens) :
                 lexer.tokens[t] = Token("RightBrace", "", 1, i)

\* "&#" was tokenized: one diagnostic for the two invalid characters
C7_Witness ==
    /\ phase = "tokenized"
    /\ lexer.input = FragAmp \o FragHash
    /\ lexer.diagnostics = <<Diagnostic("E1003", 1, 1)>>

\* C8: parse() returns Ok(Program), with every item parsed, exactly when no
\* diagnostic was recorded; otherwise it returns the non-empty bag and no
\* item. A top-level item that fails to parse always records a diagnostic,
\* so items that parsed are never returned together with errors.
C8_OkIffNoDiagnostic ==
    /\ [](parser.result # None =>
            /\ parser.result[1].ok <=> parser.diagnostics = <<>>
            /\ parser.result[1].ok =>
                  /\ parser.result[1].items = parser.items
                  /\ parser.result[1].diagnostics = <<>>
            /\ ~parser.result[1].ok =>
                  /\ parser.result[1].items = <<>>
                  /\ parser.result[1].diagnostics = parser.diagnostics
                  /\ parser.result[1].diagnostics # <<>>)
    /\ [][ParseIteration /\ Len(parser'.items) = Len(parser.items)
              => Len(parser'.diagnostics) > Len(parser.diagnostics)]_vars

\* "page a{}page a{": the first page parsed, the second did not, and parse
\* returned the bag without the first page
C8_Witness ==
    /\ phase = "parsed"
    /\ lexer.input = FragPage \o FragClose \o FragPage
    /\ Len(parser.items) = 1
    /\ ~parser.result[1].ok
    /\ parser.result[1].items = <<>>
    /\ Len(parser.result[1].diagnostics) = 1

\* the places of the token sequence where a top-level item starts: a
\* top-level keyword, the function of "external function" excepted
ItemStarts(tokens) ==
    {i \in 1..Len(tokens) :
        /\ tokens[i].token_type \in TopLevelKeywords
        /\ ~(/\ tokens[i].token_type = "Function"
             /\ i > 1
             /\ tokens[i - 1].token_type = "External")}

\* the tokens of the item starting at place i, closed by the Eof token
ItemTokens(tokens, i) ==
    LET later == {j \in ItemStarts(tokens) : j > i}
        last == IF later = {} THEN Len(tokens) - 1
                ELSE (CHOOSE j \in later : \A m \in later : j <= m) - 1
    IN  Append(SubSeq(tokens, i, last), tokens[Len(tokens)])

\* the item has a syntax error: parsed on its own it gives no Program
HasSyntaxError(item_tokens) == ~parse(Parser_new(item_tokens)).result[1].ok

\* C9: the parser resumes at the next top-level keyword after an item that
\* failed, so a source made of k items that each start with a top-level
\* keyword and each contain a syntax error yields at least k diagnostics.
C9_OneDiagnosticPerFailedItem ==
    (/\ phase = "parsed"
     /\ 1 \in ItemStarts(parser.tokens)
     /\ \A i \in ItemStarts(parser.tokens) :
           HasSyntaxError(ItemTokens(parser.tokens, i)))
    => Len(parser.diagnostics) >= Cardinality(ItemStarts(parser.tokens))

\* "table T{a:page a{": two items, each with an error, and one diagnostic,
\* recorded after parse_type had consumed the page keyword
C9_Witness ==
    /\ phase = "parsed"
    /\ lexer.input = FragTable \o FragPage
    /\ Cardinality(ItemStarts(parser.tokens)) = 2
    /\ parser.diagnostics = <<Diagnostic("E2003", 1, 16)>>

\* the codes the parser records
ParserCodes == {"E2001", "E2002", "E2003", "E2004", "E2011", "E2012"}

\* a page without its closing '}' and another page holding the invalid
\* character '#', in either order
C10_Sources ==
    {FragPage \o FragPage \o FragHash \o FragClose,
     FragPage \o FragHash \o FragClose \o FragPage}

Codes(bag) == {bag[i].code : i \in 1..Len(bag)}

\* C10: for a source in which one page lacks its closing '}' and another
\* page contains an invalid character, one run of the front end returns
\* from parse() a single bag holding both the invalid-character error and
\* the missing-brace error.
C10_BothErrorsInOneBag ==
    (phase = "exit" /\ lexer.input \in C10_Sources) =>
        /\ parser.result # None
        /\ ~parser.result[1].ok
        /\ "E1003" \in Codes(parser.result[1].diagnostics)
        /\ Codes(parser.result[1].diagnostics) \cap ParserCodes # {}

\* the run ended after tokenize: parse() was never called
C10_Witness ==
    /\ phase = "exit"
    /\ lexer.input \in C10_Sources
    /\ exit = "Lexical analysis failed"
    /\ Codes(lexer.diagnostics) = {"E1003"}
    /\ parser = Parser_new(<<>>)

\* the steps of check_command in the order it takes them
PhaseOrder ==
    <<"tokenize", "tokenized", "parse", "parsed", "declare", "functions",
      "pages", "finish", "done", "exit">>

PhaseRank(ph) == CHOOSE i \in 1..Len(PhaseOrder) : PhaseOrder[i] = ph

\* what the loop of a phase has left to do: characters, tokens or items
Remaining ==
    CASE phase = "tokenize" -> Len(lexer.input) - lexer.position
      [] phase = "parse" -> Len(parser.tokens) - parser.current
      [] phase \in {"declare", "functions", "pages"} -> Len(program) + 1 - idx
      [] OTHER -> 0

\* C11: the front end always runs to completion. Every iteration of the
\* loop of tokenize consumes at least one character and tokenize returns
\* with all input consumed; every iteration of the loop of parse, recovery
\* through synchronize included, consumes at least one token and parse
\* returns at the Eof token. Every step of a run either moves on to a later
\* phase or shortens what its loop has left, which is never negative, so no
\* run goes on for ever; and a run that has not reached its exit is in a
\* phase that has a next step.
C11_FrontEndTerminates ==
    /\ [][TokenizeIteration => lexer'.position > lexer.position]_vars
    /\ [][ParseIteration => parser'.current > parser.current]_vars
    /\ [][\/ PhaseRank(phase') > PhaseRank(phase)
          \/ /\ phase' = phase
             /\ Remaining' < Remaining]_vars
    /\ [](Remaining >= 0)
    /\ [](lexer.result # None => lexer.position = Len(lexer.input))
    /\ [](parser.result # None => Parser_is_at_end(parser))
    /\ [](phase = "done" => lexer.result # None /\ result # None)

\* "}page a{}": the first iteration of parse failed on '}' without
\* consuming it, synchronize skipped it, and parse went on to the end
C11_Witness ==
    /\ phase = "exit"
    /\ lexer.input = FragClose \o FragPage \o FragClose
    /\ parser.diagnostics = <<Diagnostic("E2001", 1, 1)>>
    /\ parser.result # None
    /\ Parser_is_at_end(parser)

\* the line of place i of a source: one more than the line ends before it
LineOf(input, i) == 1 + Cardinality({j \in 1..(i - 1) : input[j] = "\n"})

\* the column of place i: its distance from the last line end before it
ColumnOf(input, i) ==
    LET ends == {j \in 1..(i - 1) : input[j] = "\n"}
    IN  IF ends = {} THEN i
        ELSE i - (CHOOSE j \in ends : \A k \in ends : k <= j)

\* C18: a string literal that is opened and never closed yields exactly one
\* E1001 diagnostic, at the line and column of the opening quote, and
\* tokenize still ends at the end of the input and returns the diagnostics.
\* (A source holding one quote, with no comment before it, opens a string
\* there and never closes it.)
C18_UnterminatedStringOneE1001 ==
    (/\ lexer.result # None
     /\ Cardinality(PlacesOf(lexer.input, "\"")) = 1
     /\ \A q \in PlacesOf(lexer.input, "\"") :
           \A j \in 1..(q - 1) : lexer.input[j] # "/")
    => /\ \A q \in PlacesOf(lexer.input, "\"") :
             {d \in 1..Len(lexer.diagnostics) :
                 lexer.diagnostics[d].code = "E1001"}
             = {d \in 1..Len(lexer.diagnostics) :
                   lexer.diagnostics[d]
                   = Diagnostic("E1001", LineOf(lexer.input, q),
                                ColumnOf(lexer.input, q))}
       /\ Cardinality({d \in 1..Len(lexer.diagnostics) :
                          lexer.diagnostics[d].code = "E1001"}) = 1
       /\ lexer.position = Len(lexer.input)
       /\ ~lexer.result[1].ok
       /\ lexer.result[1].diagnostics = lexer.diagnostics

\* "&\"hello": the quote after the lone '&' is skipped, hello is read as an
\* identifier and no E1001 is recorded
C18_Witness ==
    /\ lexer.result # None
    /\ lexer.input = FragAmp \o FragQuote \o FragHello
    /\ lexer.diagnostics = <<Diagnostic("E1003", 1, 1)>>

\* build() has returned or panicked
Built == phase = "built" /\ builder.result # None

\* build() has returned Ok(ir_module)
BuiltOk == Built /\ builder.result[1].k = "Ok"

\* the IRItem kind an item of the Program lowers to
ItemKinds ==
    [TableDef |-> "TableDef", Page |-> "PageDef", FunctionDef |-> "FunctionDef",
     ExternalFunction |-> "FunctionDef", Test |-> "TestDef"]

\* the module has one item per Program item, of its kind and name, in order
CompleteModule(items) ==
    /\ Len(items) = Len(program)
    /\ \A i \in 1..Len(items) :
          /\ items[i].k = ItemKinds[program[i].k]
          /\ items[i].name = program[i].name

C13_AnalysedProgramsLower ==
    (phase = "built" /\ errors = <<>>) =>
        /\ BuiltOk
        /\ CompleteModule(builder.result[1].items)

\* f(x: int) { forall i in x { return i } } passes the analysis, and build
\* returns Err: the loop variable i is not found
C13_Witness ==
    /\ Built
    /\ program = <<FunctionDef("f", <<Parameter("x", TInt)>>, TInt,
                               <<Forall("i", Id("x"), <<Return(Id("i"))>>)>>)>>
    /\ errors = <<>>
    /\ builder.result[1] =
          BuildResult("Err", <<>>, [msg |-> "Variable not found", name |-> "i"])

RECURSIVE ExprNodes(_)
\* the expression e and every expression below it
ExprNodes(e) == {e} \cup UNION {ExprNodes(e.args[i]) : i \in 1..Len(e.args)}

RECURSIVE NodeExprs(_)
\* the expressions of an IRNode and of the nodes below it
NodeExprs(n) ==
    (IF n.value # None THEN ExprNodes(n.value[1]) ELSE {})
    \cup UNION {NodeExprs(n.body[i]) : i \in 1..Len(n.body)}
    \cup (IF n.else_branch # None
          THEN UNION {NodeExprs(n.else_branch[1][i]) :
                         i \in 1..Len(n.else_branch[1])}
          ELSE {})

RECURSIVE NodeTypes(_)
\* the types of the bindings of an IRNode and of the nodes below it
NodeTypes(n) ==
    (IF n.ty # None THEN {n.ty[1]} ELSE {})
    \cup UNION {NodeTypes(n.body[i]) : i \in 1..Len(n.body)}
    \cup (IF n.else_branch # None
          THEN UNION {NodeTypes(n.else_branch[1][i]) :
                         i \in 1..Len(n.else_branch[1])}
          ELSE {})

\* the expressions of the items of a module
ModuleExprs(items) ==
    UNION {UNION {NodeExprs(items[i].body[j]) : j \in 1..Len(items[i].body)} :
              i \in 1..Len(items)}

\* the types of the bindings of a module
ModuleBindingTypes(items) ==
    UNION {UNION {NodeTypes(items[i].body[j]) : j \in 1..Len(items[i].body)} :
              i \in 1..Len(items)}

\* C14: no expression and no binding of a module that build returned has
\* the type Error.
C14_NoErrorTypeAfterBuild ==
    BuiltOk =>
        /\ \A e \in ModuleExprs(builder.result[1].items) : get_type(e) # TypeError
        /\ TypeError \notin ModuleBindingTypes(builder.result[1].items)

\* table T and page P { let y = load_csv(T, "u.csv") }: build returns the
\* module, and the binding of y has the type Error
C14_Witness ==
    /\ BuiltOk
    /\ program = <<TableT,
                   Page("P", <<Let("y", None,
                                   Some(Call("load_csv",
                                             <<Id("T"), StrLit("u.csv")>>)))>>)>>
    /\ builder.result[1].items[2].body[1].ty = Some(TypeError)

\* the nodes a binary - can lower to
IsSubtraction(e) ==
    \/ e.k = "Minus"
    \/ e.k = "BinaryOp" /\ e.op \in {"Sub", "SetMinus"}

\* C15: a binary - lowers by the type of its left operand: to Minus when it
\* is a Table, to the BinaryOp with operator Sub when it is Int or Float.
C15_MinusLowersByLeftType ==
    \A e \in ModuleExprs(builder.items) :
        IsSubtraction(e) =>
            /\ is_table(get_type(e.args[1])) => e.k = "Minus"
            /\ get_type(e.args[1]).t \in {"Int", "Float"} =>
                  e.k = "BinaryOp" /\ e.op = "Sub"

\* table T and f(x: int) { return T - T }: the analysis passes, and the -
\* of two tables is lowered to the BinaryOp Sub of type Error
C15_Witness ==
    /\ BuiltOk
    /\ program = <<TableT,
                   FunctionDef("f", <<Parameter("x", TInt)>>, TInt,
                               <<Return(BinOp("Subtract", Id("T"), Id("T")))>>)>>
    /\ builder.items[2].body[1].value[1].k = "BinaryOp"
    /\ builder.items[2].body[1].value[1].op = "Sub"
    /\ get_type(builder.items[2].body[1].value[1]) = TypeError
    /\ is_table(get_type(builder.items[2].body[1].value[1].args[1]))

\* the fields of the table named name that the program declares
DeclaredFields(name) ==
    {f \in UNION {{program[i].fields[j] : j \in 1..Len(program[i].fields)} :
                     i \in {k \in 1..Len(program) : program[k].k = "TableDef"
                                                    /\ program[k].name = name}} :
        TRUE}

\* the names of the tables the program declares
DeclaredTables ==
    {program[i].name : i \in {k \in 1..Len(program) : program[k].k = "TableDef"}}

\* item i is a function that ends with return obj.field, obj a variable of
\* the table type name: its parameter x: name, or y of let y = name
ReadsDeclaredField(i, name, field) ==
    /\ program[i].k = "FunctionDef"
    /\ Len(program[i].params) = 1
    /\ \/ /\ program[i].params[1].param_type = TTable(name)
          /\ program[i].body =
                <<Return(FieldAccess(Id(program[i].params[1].name), field.name))>>
       \/ /\ program[i].params[1].name # "y"
          /\ program[i].body =
                <<Let("y", None, Some(Id(name))),
                  Return(FieldAccess(Id("y"), field.name))>>

\* C16: obj.f, obj a variable of a declared table type: when f is declared
\* ref Other it lowers to a RefNavigation whose target table is Other, when
\* f is declared with a primitive type it lowers to a FieldAccess of that
\* type. (Checked once build has come to the item: all items before it are
\* lowered.)
C16_RefFieldIsNavigation ==
    \A i \in 1..Len(program) :
        \A name \in DeclaredTables :
            \A field \in DeclaredFields(name) :
                (/\ ReadsDeclaredField(i, name, field)
                 /\ Built
                 /\ errors = <<>>
                 /\ Len(builder.items) >= i - 1) =>
                    /\ Len(builder.items) >= i
                    /\ LET body == builder.items[i].body
                           e == body[Len(body)].value[1]
                       IN  IF field.field_type.t = "Ref"
                           THEN /\ e.k = "RefNavigation"
                                /\ e.target_table = field.field_type.name
                           ELSE /\ e.k = "FieldAccess"
                                /\ get_type(e) = IRType(field.field_type.t, None)

\* table T { a: int [key] r: ref T } and
\* f(x: int) { let y = T  return y.r }: the analysis passes, the table is
\* lowered with r as a ref to T, and build returns Err: the field r is not
\* found
C16_Witness ==
    /\ Built
    /\ program = <<TableT,
                   FunctionDef("f", <<Parameter("x", TInt)>>, TInt,
                               <<Let("y", None, Some(Id("T"))),
                                 Return(FieldAccess(Id("y"), "r"))>>)>>
    /\ errors = <<>>
    /\ Len(builder.items) = 1
    /\ builder.items[1].schema[1].fields[2].ty = [t |-> "Ref", table_name |-> "T"]
    /\ builder.result[1] =
          BuildResult("Err", <<>>,
                      [msg |-> "Field not found in table", name |-> "r"])

\* the bracket suffixes of the specification and the expression each is
\* to parse to
BracketCases ==
    {[source |-> FragSelectOne,
      expr |-> ColumnSelect(Id("t"), <<SortColumn("a", TRUE)>>)],
     [source |-> FragSelectTwo,
      expr |-> ColumnSelect(Id("t"), <<SortColumn("a", TRUE),
                                       SortColumn("b", TRUE)>>)],
     [source |-> FragIndexLiteral, expr |-> Index(Id("t"), IntLit("0"))],
     [source |-> FragIndexExpr,
      expr |-> Index(Id("t"), BinOp("Add", Id("x"), IntLit("1")))]}

\* C17: after [ in suffix position a bare identifier followed by , or ] is
\* a column selection, and any other content is an index expression: t[a]
\* and t[a, b] parse to ColumnSelect, t[0] and t[x+1] to Index, without a
\* diagnostic.
C17_BracketSuffix ==
    \A c \in BracketCases :
        (lexer.input = Lines(<<c.source>>) /\ parser.result # None) =>
            /\ lexer.diagnostics = <<>>
            /\ parser.diagnostics = <<>>
            /\ parser.result[1].ok
            /\ parser.result[1].items = <<Page("a", <<Return(c.expr)>>)>>

\* page a{return t[x+1]}: parse returns Err with one E2001, at the +
C17_Witness ==
    /\ lexer.input = Lines(<<FragIndexExpr>>)
    /\ parser.result # None
    /\ ~parser.result[1].ok
    /\ parser.diagnostics = <<Diagnostic("E2001", 1, 18)>>
    /\ parser.items = <<>>

\* the table of the scenario
UserTable ==
    TableDef("User", <<Field("id", TInt, <<"Key">>),
                       Field("name", TString, <<>>)>>)

\* the value of the let of the scenario
LoadUsers == Call("load_csv", <<Id("User"), StrLit("u.csv")>>)

\* C19: the table User followed by the page P with
\* let u: table(User) = load_csv(User, "u.csv") lexes and parses without a
\* diagnostic into two items: the TableDef User whose field id has one key
\* constraint, and the Page P with one Let annotated with the table type
\* User.
C19_UserScenarioParses ==
    (lexer.input = Lines(<<FragUserTable, FragUserPage>>)
     /\ parser.result # None) =>
        /\ lexer.diagnostics = <<>>
        /\ parser.diagnostics = <<>>
        /\ parser.result[1].ok
        /\ parser.result[1].items =
              <<UserTable,
                Page("P", <<Let("u", Some(TTable("User")), Some(LoadUsers))>>)>>

\* the scenario: the table is parsed, the page is not; parse returns Err
\* with one E2003, for the token table after let u:
C19_Witness ==
    /\ lexer.input = Lines(<<FragUserTable, FragUserPage>>)
    /\ lexer.diagnostics = <<>>
    /\ parser.result # None
    /\ ~parser.result[1].ok
    /\ parser.items = <<UserTable>>
    /\ parser.diagnostics = <<Diagnostic("E2003", 2, 22)>>

\* the names of the generated programs
SemNames == {"x", "y", "u", "i", "f", "T", "P", "t", "s"}

RECURSIVE Duplicates(_, _, _)
\* the definitions of name in the block stmts, and in the blocks below it,
\* that come after a definition of name in the same block; defined: name
\* is defined in the block before its first statement
Duplicates(name, defined, stmts) ==
    IF stmts = <<>> THEN 0
    ELSE LET s == Head(stmts)
             here == s.k = "Let" /\ s.name = name
         IN  (IF here /\ defined THEN 1 ELSE 0)
             + (CASE s.k \in {"Section", "Button"} ->
                       Duplicates(name, FALSE, s.body)
                  [] s.k = "If" ->
                       Duplicates(name, FALSE, s.body)
                       + (IF s.else_branch = None THEN 0
                          ELSE Duplicates(name, FALSE, s.else_branch[1]))
                  [] s.k = "Forall" -> Duplicates(name, s.name = name, s.body)
                  [] OTHER -> 0)
             + Duplicates(name, defined \/ here, Tail(stmts))

\* the items of the global namespace that declare name
GlobalDeclarations(name) ==
    {i \in 1..Len(program) :
        /\ program[i].k \in {"TableDef", "FunctionDef", "ExternalFunction"}
        /\ program[i].name = name}

\* the parameters of item i named name
ParametersNamed(i, name) ==
    {j \in 1..Len(program[i].params) : program[i].params[j].name = name}

Surplus(n) == IF n > 0 THEN n - 1 ELSE 0

RECURSIVE SumOver(_, _)
SumOver(i, name) ==
    IF i = 0 THEN 0
    ELSE SumOver(i - 1, name)
         + (CASE program[i].k \in {"Page", "Test"} ->
                   Duplicates(name, FALSE, program[i].body)
              [] program[i].k = "FunctionDef" ->
                   Surplus(Cardinality(ParametersNamed(i, name)))
                   + Duplicates(name, ParametersNamed(i, name) # {},
                                program[i].body)
              [] OTHER -> 0)

\* the duplicate definitions of name in the program, over all its scopes
DuplicateDefinitions(name) ==
    Surplus(Cardinality(GlobalDeclarations(name))) + SumOver(Len(program), name)

\* C20: each duplicate definition inside one scope yields exactly one
\* Redefinition error: a name declared n times among the tables, functions
\* and external functions has n-1 of them, and two lets of one name in one
\* block have one; the analysis records for every name as many
\* Redefinition errors as the program has duplicate definitions of it.
C20_OneRedefinitionPerDuplicate ==
    phase = "done" =>
        \A name \in SemNames :
            Cardinality(ErrorsOf("Redefinition", name)) = DuplicateDefinitions(name)

\* table T and page P { let x = 1  let x = 2 }: the analysis is done and
\* has recorded exactly one error, the Redefinition of x
C20_Witness ==
    /\ phase = "done"
    /\ program = <<TableDef("T", <<>>),
                   Page("P", <<Let("x", None, Some(IntLit("1"))),
                               Let("x", None, Some(IntLit("2")))>>)>>
    /\ errors = <<Redefinition("x")>>

---------------------------------------------------------------------------
(* The analyzer on programs that exercise the order of its passes, the    *)
(* assignment statement, chains and nested blocks                          *)

\* `let x: int` declares x without a value
DeclareX == Let("x", Some(TInt), None)

FlowBodies ==
    {<<DeclareX, Assign("x", Id("x"))>>,
     <<DeclareX, Assign("x", IntLit("1")), Return(Id("x"))>>,
     <<DeclareX, Return(Id("x"))>>,
     <<DeclareX, Section("s", <<Assign("x", Id("x"))>>)>>,
     <<Let("x", None, Some(IntLit("1"))), Assign("x", Id("x"))>>,
     <<DeclareX,
       Section("s", <<If(Id("x"), <<Return(Id("x"))>>, Some(<<Return(Id("u"))>>)),
                      Return(Id("x"))>>),
       Return(Id("x"))>>,
     <<Forall("i", Id("T"), <<Button("b", <<Return(Id("i"))>>)>>),
       Return(Id("u"))>>}

\* bodies that read the global names T, f and g, and bodies that read the
\* unbound names u (pages and tests) and v (functions)
FlowReads ==
    {<<Return(Id("T"))>>, <<Return(Call("g", <<Id("f")>>))>>,
     <<Return(Id("u"))>>}

FlowItems ==
    {Page("P", b) : b \in FlowBodies \cup FlowReads}
    \cup {FunctionDef("f", <<Parameter("x", TInt)>>, TInt, b) :
             b \in {<<Return(Id("T"))>>, <<Return(Id("g"))>>, <<Return(Id("v"))>>,
                    <<If(Id("x"), <<Return(Id("v"))>>, None), Return(Id("x"))>>}}
    \cup {Test("t", <<Return(Id("T"))>>), Test("t", <<Return(Id("u"))>>),
          Test("t", <<Section("s", <<Return(Id("T"))>>)>>),
          TableDef("T", <<>>), ExternalFunction("g", <<>>, TString, "m")}

FlowPrograms == SeqsUpTo(FlowItems, MaxItems)

InitFlow ==
    /\ program \in FlowPrograms
    /\ symbols = SymbolTable_new
    /\ errors = <<>>
    /\ phase = "declare"
    /\ idx = 1
    /\ result = None
    /\ lastOp = NoOp
    /\ FrontIdle

SpecFlow == InitFlow /\ [][NextSem]_vars

---------------------------------------------------------------------------
(* Claims about the analyzer, checked under SpecFlow *)

\* the bodies of the pages, tests and functions of the program
BodiesOf(prog) ==
    {prog[i].body : i \in {j \in 1..Len(prog) :
                              prog[j].k \in {"Page", "Test", "FunctionDef"}}}

\* the names n for which some body starts with a declaration of n that
\* gives it no value, followed by an assignment to n whose value reads n
SelfInitialized(prog) ==
    {b[1].name : b \in {c \in BodiesOf(prog) :
        /\ Len(c) >= 2
        /\ c[1].k = "Let" /\ c[1].value = None
        /\ c[2].k = "Assign" /\ c[2].name = c[1].name
        /\ c[1].name \in ExprReads(c[2].value[1])}}

\* C21: the value of an assignment is checked against the initialization
\* state that holds before the assignment: with x declared and not yet
\* initialized, `x = e` with e reading x is reported as
\* UninitializedVariable.
C21_ValueCheckedBeforeAssignment ==
    phase = "done" =>
        \A n \in SelfInitialized(program) :
            ErrorsOf("UninitializedVariable", n) # {}

\* page P { let x: int  x = x } has been analysed
C21_Witness ==
    /\ phase = "done"
    /\ program = <<Page("P", <<DeclareX, Assign("x", Id("x"))>>)>>
    /\ "x" \in SelfInitialized(program)

---------------------------------------------------------------------------
(* Claims about comments, checked under SpecText *)

\* the places where a comment that runs to the end of the source starts:
\* a "//" with no other "//" before it on its line and nothing after its
\* line but one line end at most. A source with a quote is left out, since
\* a "//" inside a string literal starts no comment.
TrailingComment(input) ==
    {i \in 1..(Len(input) - 1) :
        /\ input[i] = "/" /\ input[i + 1] = "/"
        /\ \A j \in i..(Len(input) - 1) : input[j] # "\n"
        /\ \A k \in 1..(i - 1) :
              input[k] = "/" /\ input[k + 1] = "/"
                  => \E j \in k..i : input[j] = "\n"
        /\ PlacesOf(input, "\"") = {}}

\* what tokenize returns, but for the place of the Eof token
WithoutEofPlace(r) ==
    [ok |-> r.ok, diagnostics |-> r.diagnostics,
     tokens |-> [i \in 1..Len(r.tokens) |->
                    IF r.tokens[i].token_type = "Eof" THEN "Eof" ELSE r.tokens[i]]]

\* C22: a comment yields neither a token nor a diagnostic, also as the last
\* thing in the source, with or without a line end after it: tokenize
\* returns for the source what it returns for the source without the
\* comment (the Eof token stands where the input ends).
C22_TrailingCommentIsInvisible ==
    lexer.result # None =>
        \A i \in TrailingComment(lexer.input) :
            WithoutEofPlace(lexer.result[1])
            = WithoutEofPlace(
                  tokenize(Lexer_new(SubSeq(lexer.input, 1, i - 1))).result[1])

\* "page a{//hello": tokenize has returned, with the diagnostics of the
\* source that ends in a comment
C22_Witness ==
    /\ lexer.result # None
    /\ lexer.input = FragPage \o FragComment \o FragHello
    /\ TrailingComment(lexer.input) = {8}

---------------------------------------------------------------------------
(* Claims about the statement parser, checked under SpecScenario *)

\* the page the source FragForms stands for
FormsPage ==
    Page("a", <<TextStmt("Title", "s"), TextStmt("Subtitle", "s"),
                TextStmt("Text", "s"),
                Button("b", <<Return(Id("x"))>>),
                Section("s", <<Let("y", None, Some(Id("x")))>>),
                If(Id("x"), <<Assign("x", IntLit("1"))>>,
                   Some(<<CallStmt(Call("f", <<Id("x")>>))>>))>>)

\* the page the source FragForall stands for
ForallPage == Page("a", <<Forall("i", Id("t"), <<Return(Id("i"))>>)>>)

\* the sources made of the two pages, each with the items it stands for
StatementForms ==
    {[source |-> Lines([i \in 1..Len(ps) |-> ps[i][1]]),
      items |-> [i \in 1..Len(ps) |-> ps[i][2]]]
     : ps \in SeqsUpTo({<<FragForms, FormsPage>>, <<FragForall, ForallPage>>},
                       MaxItems) \ {<<>>}}

\* C23: the statement parser accepts every statement form and yields the
\* matching Statement node: title, subtitle, text, button and section with
\* a body, let, if with else, forall var in iterable { .. }, return,
\* assignment and call; a page with a forall loop parses into a Forall
\* statement without a diagnostic.
C23_EveryStatementFormParses ==
    \A f \in StatementForms :
        (lexer.input = f.source /\ parser.result # None) =>
            /\ parser.diagnostics = <<>>
            /\ parser.result[1].ok
            /\ parser.result[1].items = f.items

\* page a{forall i in t{return i}}: parse has returned Err with one E2001,
\* for the token forall, and no item
C23_Witness ==
    /\ lexer.input = Lines(<<FragForall>>)
    /\ lexer.diagnostics = <<>>
    /\ parser.result # None
    /\ ~parser.result[1].ok
    /\ parser.items = <<>>
    /\ parser.diagnostics = <<Diagnostic("E2001", 1, 8)>>

\* the other statement forms parse: the page of FragForms is returned
C23_OtherFormsParse ==
    /\ lexer.input = Lines(<<FragForms>>)
    /\ parser.result # None
    /\ parser.result[1].ok
    /\ parser.result[1].items = <<FormsPage>>

\* the table after the first loop of analyze, and its errors
Declared(prog) ==
    analyze_loop([symbols |-> SymbolTable_new, errors |-> <<>>, depths |-> <<>>],
                 prog, "declare")

\* the errors of one body, checked on its own against all the global
\* declarations of the program
BodyErrors(item) ==
    LET st == [symbols |-> Declared(program).symbols, errors |-> <<>>,
               depths |-> <<>>]
    IN  (CASE item.k = "FunctionDef" -> check_function_body(st, item)
           [] item.k = "Page" -> check_page(st, item)
           [] item.k = "Test" -> check_test(st, item)).errors

RECURSIVE BodyErrorsOf(_, _)
\* the errors of the bodies of the items of the kinds, in source order
BodyErrorsOf(items, kinds) ==
    IF items = <<>> THEN <<>>
    ELSE (IF Head(items).k \in kinds THEN BodyErrors(Head(items)) ELSE <<>>)
         \o BodyErrorsOf(Tail(items), kinds)

\* C24: the global declarations are collected before any body is checked
\* and function bodies are checked before page and test bodies: no read of
\* a table, function or external function of the program is reported as
\* UndefinedVariable, wherever the declaration stands, and the returned
\* list holds the errors of the declarations, then those of the function
\* bodies, then those of the pages and tests, each body checked against
\* all the global declarations.
C24_DeclarationsThenFunctionsThenPages ==
    phase = "done" =>
        /\ \A n \in GlobalNames(program) : ErrorsOf("UndefinedVariable", n) = {}
        /\ errors = Declared(program).errors
                    \o BodyErrorsOf(program, {"FunctionDef"})
                    \o BodyErrorsOf(program, {"Page", "Test"})

\* page P { return u } function f(x: int) -> int { return v }: the error
\* of the function body comes first
C24_Witness ==
    /\ phase = "done"
    /\ program = <<Page("P", <<Return(Id("u"))>>),
                   FunctionDef("f", <<Parameter("x", TInt)>>, TInt,
                               <<Return(Id("v"))>>)>>
    /\ errors = <<UndefinedVariable("v"), UndefinedVariable("u")>>

\* page P { return T } table T { }: the page reads the table declared
\* after it and nothing is reported
C24_ForwardReference ==
    /\ phase = "done"
    /\ program = <<Page("P", <<Return(Id("T"))>>), TableDef("T", <<>>)>>
    /\ errors = <<>>

---------------------------------------------------------------------------
(* Claims about chains, checked under SpecScenario *)

RECURSIVE StmtExprs(_)
\* the expressions the analyzer checks in a block: assignment values,
\* return values, conditions, iterables and call statements
StmtExprs(stmts) ==
    IF stmts = <<>> THEN {}
    ELSE LET s == Head(stmts)
         IN  (IF s.k \in {"Assign", "Return", "If", "Forall", "FunctionCall"}
              THEN {s.value[1]} ELSE {})
             \cup StmtExprs(s.body)
             \cup (IF s.else_branch = None THEN {} ELSE StmtExprs(s.else_branch[1]))
             \cup StmtExprs(Tail(stmts))

\* e -> f(_)
IsPlaceholderChain(e) ==
    /\ e.k = "Chain"
    /\ e.args[2].k = "FunctionCall"
    /\ \E i \in 1..Len(e.args[2].args) : e.args[2].args[i] = Id("_")

\* the chains with a placeholder among the checked expressions of the program
PlaceholderChains ==
    UNION {{e \in StmtExprs(b) : IsPlaceholderChain(e)} : b \in BodiesOf(program)}

\* C25: a chain e -> f(_) whose left operand is defined and initialized
\* passes the analysis wherever an expression is checked: the placeholder
\* _ is no reference to a variable and yields no UndefinedVariable.
C25_PlaceholderIsNoVariable ==
    (phase = "done" /\ PlaceholderChains # {}) =>
        ErrorsOf("UndefinedVariable", "_") = {}

\* page a{let x = 1 if x -> f(_){x = x -> f(_)} return x -> f(_)}: the
\* analysis is done; x is defined and initialized, and the chain
\* x -> f(_) has an UndefinedVariable for _ recorded at each of the three
\* places where it is checked
C25_Witness ==
    /\ phase = "done"
    /\ lexer.input = Lines(<<FragChain>>)
    /\ Cardinality(PlaceholderChains) = 1
    /\ errors = <<UndefinedVariable("_"), UndefinedVariable("_"),
                  UndefinedVariable("_")>>

---------------------------------------------------------------------------
(* Claims about the parent links, checked under SpecSym *)

\* the scope directly beneath place i of the stack
Beneath(t, i) == IF i = 1 THEN t.global ELSE t.current_scopes[i - 1]

\* C28: every scope on the active stack holds as its parent the current
\* state of the scope directly beneath it, the global scope for the bottom
\* one; so lookup through the parent chain returns for every name the
\* symbol, is_initialized included, that a scan of the stack from the top
\* down and then of the global scope returns.
C28_ParentIsScopeBeneath ==
    /\ \A i \in 1..Depth(symbols) :
          symbols.current_scopes[i].parent = Some(Beneath(symbols, i))
    /\ \A n \in SymNames : lookup(symbols, n) = StackScan(symbols, n)

\* x is defined in the bottom scope without a value, a scope is pushed,
\* and mark_initialized(x) has returned Ok: the bottom scope holds x
\* initialized, the parent held by the top scope holds it uninitialized
C28_Witness ==
    /\ lastOp.op = "mark_initialized" /\ lastOp.result = "Ok"
    /\ lastOp.name = "x"
    /\ Depth(symbols) = 2
    /\ lookup_local(symbols.current_scopes[1], "x") # None
    /\ StackScan(symbols, "x")[1].is_initialized
    /\ ~lookup(symbols, "x")[1].is_initialized
    /\ symbols.current_scopes[2].parent # Some(symbols.current_scopes[1])

---------------------------------------------------------------------------
(* Claims about the balance of the scope stack, checked under SpecFlow *)

RECURSIVE EnclosingBlocks(_, _)
\* for the statements of a block with d blocks around them, in the order
\* in which they are checked, the number of blocks that enclose each
EnclosingBlocks(stmts, d) ==
    IF stmts = <<>> THEN <<>>
    ELSE LET s == Head(stmts)
         IN  <<d>>
             \o EnclosingBlocks(s.body, d + 1)
             \o (IF s.else_branch = None THEN <<>>
                 ELSE EnclosingBlocks(s.else_branch[1], d + 1))
             \o EnclosingBlocks(Tail(stmts), d)

\* the names of the programs of SpecFlow
FlowNames == {"x", "y", "u", "v", "i", "f", "g", "T", "P", "t", "s", "_"}

\* the item the next step of the second or third loop checks, if it has one
NextBody ==
    IF idx \in 1..Len(program)
       /\ \/ phase = "functions" /\ program[idx].k = "FunctionDef"
          \/ phase = "pages" /\ program[idx].k \in {"Page", "Test"}
    THEN Some(program[idx]) ELSE None

\* the analyzer after that step
NextCheck ==
    IF phase = "functions"
    THEN check_function_item(AnalyzerState, program[idx])
    ELSE check_page_item(AnalyzerState, program[idx])

\* C29: the analysis keeps the scope stack balanced. Between the items of
\* every loop no scope is active, so each push_scope of a function, page,
\* test, section, button, if-branch or forall body was matched by one
\* pop_scope; at the start of the check of each statement the depth of the
\* stack is the number of blocks that enclose the statement; and when
\* analyze returns, with or without errors, no scope is active and the
\* table resolves the global names only.
C29_ScopeStackIsBalanced ==
    /\ symbols.current_scopes = <<>>
    /\ NextBody # None =>
          /\ NextCheck.depths = EnclosingBlocks(NextBody[1].body, 1)
          /\ NextCheck.symbols.current_scopes = <<>>
    /\ phase = "done" =>
          \A n \in FlowNames :
              lookup(symbols, n) # None <=> n \in GlobalNames(program)

\* the page with a section that holds an if with an else: the analysis is
\* done, with errors, and the statements were checked at depths 1 to 3
C29_Witness ==
    /\ phase = "done"
    /\ \E i \in 1..Len(program) :
          /\ program[i].k = "Page"
          /\ EnclosingBlocks(program[i].body, 1) = <<1, 1, 2, 3, 3, 2, 1>>
          /\ check_page(AnalyzerState, program[i]).depths = <<1, 1, 2, 3, 3, 2, 1>>
    /\ errors # <<>>
    /\ symbols.current_scopes = <<>>

---------------------------------------------------------------------------
(* IRBuilder::build on programs whose blocks declare a name that the      *)
(* enclosing body declares too                                             *)

LetInt(name) == Let(name, None, Some(IntLit("1")))

LetString(name) == Let(name, None, Some(StrLit("s")))

\* the statements between `let x = 1` and `return x`
ShadowBlocks ==
    {<<>>,
     <<Section("s", <<LetString("x")>>)>>,
     <<Button("b", <<LetString("x"), Return(Id("x"))>>)>>,
     <<If(BoolLit("true"), <<LetString("x")>>, None)>>,
     <<If(BoolLit("true"), <<>>, Some(<<LetString("x")>>))>>,
     <<Forall("j", Id("T"), <<LetString("x")>>)>>,
     <<Section("s", <<LetString("y")>>)>>,
     <<LetString("y")>>}

ShadowUnits ==
    {Page("P", <<LetInt("x")>> \o b \o <<Return(Id("x"))>>) : b \in ShadowBlocks}
    \cup {FunctionDef("f", <<Parameter("x", TInt)>>, TInt,
                      b \o <<Return(Id("x"))>>) : b \in ShadowBlocks}
    \cup {Page("P", <<Section("s", <<LetInt("y")>>), Return(Id("y"))>>)}

ShadowPrograms == {<<TableT>> \o q : q \in SeqsUpTo(ShadowUnits, MaxItems)}

InitShadow ==
    /\ program \in ShadowPrograms
    /\ symbols = SymbolTable_new
    /\ errors = <<>>
    /\ phase = "build"
    /\ idx = 0
    /\ result = None
    /\ lastOp = NoOp
    /\ FrontIdle

SpecShadow == InitShadow /\ [][NextBuild]_vars

---------------------------------------------------------------------------
(* Claims about the bindings of the builder, checked under SpecShadow *)

\* the type a let gives its name under the bindings env
LetType(s, env) ==
    CASE s.ty # None -> Type_from(s.ty[1])
      [] s.value[1].k = "IntLiteral" -> IRType("Int", None)
      [] s.value[1].k = "StringLiteral" -> IRType("String", None)
      [] s.value[1].k = "Identifier" -> env[s.value[1].name]

\* env with name bound to ty
Bind(env, name, ty) ==
    [n \in DOMAIN env \cup {name} |-> IF n = name THEN ty ELSE env[n]]

RECURSIVE LexicalReads(_, _)
\* by the scoping of the analyzer: the variables the return statements of
\* a block and of the blocks inside it read, in order, each with the type
\* of the binding visible where it is read. A block starts with the
\* bindings env of the place where it stands, and its own bindings end
\* with it.
LexicalReads(stmts, env) ==
    IF stmts = <<>> THEN <<>>
    ELSE LET s == Head(stmts)
             here ==
                 CASE s.k = "Return" /\ s.value[1].k = "Identifier" ->
                        <<IRVariable(s.value[1].name, env[s.value[1].name])>>
                   [] s.k \in {"Section", "Button"} -> LexicalReads(s.body, env)
                   [] s.k = "If" ->
                        LexicalReads(s.body, env)
                        \o (IF s.else_branch = None THEN <<>>
                            ELSE LexicalReads(s.else_branch[1], env))
                   [] s.k = "Forall" ->
                        LexicalReads(s.body,
                            Bind(env, s.name, IRType("Int", None)))
                   [] OTHER -> <<>>
         IN  here \o LexicalReads(Tail(stmts),
                         IF s.k = "Let" THEN Bind(env, s.name, LetType(s, env))
                         ELSE env)

RECURSIVE LoweredReads(_)
\* the variables the Return nodes of lowered statements carry, in order
LoweredReads(nodes) ==
    IF nodes = <<>> THEN <<>>
    ELSE LET n == Head(nodes)
         IN  (IF n.k = "Return" /\ n.value[1].k = "Variable"
              THEN <<n.value[1]>> ELSE <<>>)
             \o LoweredReads(n.body)
             \o (IF n.else_branch = None THEN <<>>
                 ELSE LoweredReads(n.else_branch[1]))
             \o LoweredReads(Tail(nodes))

\* the bindings a body starts with: the parameters of a function
ParameterBindings(item) ==
    [n \in {item.params[j].name : j \in 1..Len(item.params)} |->
        Type_from((CHOOSE p \in {item.params[j] : j \in 1..Len(item.params)} :
                      p.name = n).param_type)]

\* C30: the builder resolves each identifier to the binding the analyzer
\* resolves it to: in every lowered page and function each variable that
\* is read carries the type of the binding visible where it is read, also
\* after a section, button, if-branch or forall that declared the same
\* name has closed.
C30_BuilderBindsLikeAnalyzer ==
    BuiltOk =>
        \A i \in 1..Len(program) :
            program[i].k \in {"Page", "FunctionDef"} =>
                LoweredReads(builder.result[1].items[i].body)
                = LexicalReads(program[i].body, ParameterBindings(program[i]))

\* table T, page P { let x = 1  section "s" { let x = "s" }  return x }:
\* build has returned Ok, and the x that is returned has the type String
C30_Witness ==
    /\ BuiltOk
    /\ program = <<TableT, Page("P", <<LetInt("x"),
                                       Section("s", <<LetString("x")>>),
                                       Return(Id("x"))>>)>>
    /\ LoweredReads(builder.result[1].items[2].body)
       = <<IRVariable("x", IRType("String", None))>>
    /\ LexicalReads(program[2].body, <<>>)
       = <<IRVariable("x", IRType("Int", None))>>

---------------------------------------------------------------------------
(* wtlang-compiler codegen.rs: CodeGenerator. A generated String is the    *)
(* sequence of its pieces, each a string, in the order written; a widget   *)
(* key is one piece. A generation maps a running result [g, ok, val] to    *)
(* the next one: g is the generator, ok tells that every call so far       *)
(* returned Ok, val is the text written so far or the message of the Err.  *)
(* codegen.rs matches the statements of the ast.rs it was written for:     *)
(* title, subtitle, text, button, section, let with a value, if, forall    *)
(* and call. The programs generated here hold no other statement.          *)

\* an empty String being written by the generator g
Generating(g) == [g |-> g, ok |-> TRUE, val |-> <<>>]

\* code.push_str(..)
push_str(r, pieces) == IF r.ok THEN [r EXCEPT !.val = @ \o pieces] ELSE r

\* return Err(msg)
gen_err(r, msg) == IF r.ok THEN [g |-> r.g, ok |-> FALSE, val |-> <<msg>>] ELSE r

\* the text r was writing, continued after the call that returned s
resume(r, s) == IF s.ok THEN [s EXCEPT !.val = r.val] ELSE s

RECURSIVE concat(_)
\* the String that the pieces spell
concat(pieces) == IF pieces = <<>> THEN "" ELSE Head(pieces) \o concat(Tail(pieces))

RECURSIVE get_indent(_)
\* "    ".repeat(self.indent_level)
get_indent(level) == IF level = 0 THEN <<>> ELSE <<"    ">> \o get_indent(level - 1)

\* self.indent_level += 1 or -= 1
indent_by(r, d) == IF r.ok THEN [r EXCEPT !.g.indent_level = @ + d] ELSE r

\* the strings of the programs generated here hold none of the characters
\* \ " newline tab, which escape_string replaces, and no {
escape_string(s) == s

\* the key get_unique_key returns written after prefix, the counter advanced
push_key(r, prefix) ==
    IF r.ok
    THEN [r EXCEPT !.val = Append(@, prefix \o ToString(r.g.key_counter)),
                   !.g.key_counter = @ + 1]
    ELSE r

\* let key = self.get_unique_key(): the counter advanced; the key is the
\* counter less one from here on
get_unique_key(r) == IF r.ok THEN [r EXCEPT !.g.key_counter = @ + 1] ELSE r

BinaryOpStr ==
    [Add |-> "+", Subtract |-> "-", Multiply |-> "*", Divide |-> "/",
     Modulo |-> "%", Equal |-> "==", NotEqual |-> "!=", LessThan |-> "<",
     LessThanEqual |-> "<=", GreaterThan |-> ">", GreaterThanEqual |-> ">=",
     And |-> "and", Or |-> "or"]

\* the text of Expr::Identifier(name): an identifier made by the Chain arm
\* has the generated text for its name, and holds its pieces in args
identifier_text(expr) == IF expr.args = <<>> THEN <<expr.name>> ELSE expr.args

\* the arguments of new_call: each Identifier("_") replaced by
\* Identifier(left_code)
replace_placeholder(args, left_code) ==
    [i \in DOMAIN args |->
        IF args[i].k = "Identifier" /\ args[i].name = "_"
        THEN Expr("Identifier", concat(left_code), "", left_code, <<>>)
        ELSE args[i]]

RECURSIVE expected_cols(_)
\* field_names.join(", ") of the fields
expected_cols(fields) ==
    IF fields = <<>> THEN <<>>
    ELSE <<"\"", Head(fields).name, "\"">>
         \o (IF Len(fields) > 1 THEN <<", ">> ELSE <<>>)
         \o expected_cols(Tail(fields))

\* load_csv with a table type as second argument that table_defs knows
load_csv_validates(g, call) ==
    /\ Len(call.args) >= 2
    /\ call.args[2].k = "Identifier"
    /\ concat(identifier_text(call.args[2])) \in DOMAIN g.table_defs

RECURSIVE filter_widgets(_, _, _)
\* the widgets of the filters from filter_idx on, a row of columns opened
\* before every third; key is the key of the show call
filter_widgets(key, filters, filter_idx) ==
    IF filter_idx >= Len(filters) THEN <<>>
    ELSE LET row == filter_idx \div 3
             col_idx == filter_idx % 3
             end_idx == IF row * 3 + 3 < Len(filters) THEN row * 3 + 3
                        ELSE Len(filters)
             filter == filters[filter_idx + 1]
         IN  (IF col_idx = 0
              THEN <<"    __cols", ToString(row), " := st.columns(",
                     ToString(end_idx - row * 3), "),\n">>
              ELSE <<>>)
             \o <<"    __flt", ToString(filter_idx), " := __cols", ToString(row),
                  "[", ToString(col_idx), "].",
                  IF filter.op = "Single" THEN "selectbox('" ELSE "multiselect('",
                  filter.name,
                  IF filter.op = "Single"
                  THEN "', ['All'] + sorted(__df['" ELSE "', sorted(__df['",
                  filter.name, "'].unique().astype(str).tolist()), key='",
                  "f_" \o ToString(key) \o "_" \o ToString(filter_idx),
                  "'),\n">>
             \o filter_widgets(key, filters, filter_idx + 1)

RECURSIVE filter_updates(_, _)
\* the updates of __filtered by the filters from i on
filter_updates(filters, i) ==
    IF i >= Len(filters) THEN <<>>
    ELSE <<",\n", "    __filtered := __filtered if ",
           IF filters[i + 1].op = "Single" THEN "" ELSE "not ",
           "__flt", ToString(i),
           IF filters[i + 1].op = "Single"
           THEN " == 'All' else __filtered[__filtered['"
           ELSE " else __filtered[__filtered['",
           filters[i + 1].name,
           IF filters[i + 1].op = "Single"
           THEN "'].astype(str) == " ELSE "'].astype(str).isin(",
           "__flt", ToString(i),
           IF filters[i + 1].op = "Single" THEN "]" ELSE ")]">>
         \o filter_updates(filters, i + 1)

\* generate_show_with_filters from let key = self.get_unique_key() on; the
\* counter of r.g has been advanced
show_filtered(r, df_expr, filters, is_editable) ==
    LET key == r.g.key_counter - 1
        num_rows == (Len(filters) + 2) \div 3
    IN  push_str(r,
            <<"(lambda: (\n", "    __df := ">> \o df_expr \o <<",\n">>
            \o filter_widgets(key, filters, 0)
            \o <<"    __filtered := __df">>
            \o filter_updates(filters, 0)
            \o <<",\n">>
            \o (IF is_editable
                THEN <<"    st.data_editor(__filtered, key='",
                       "editor_" \o ToString(key),
                       "', use_container_width=True)\n">>
                ELSE <<"    st.dataframe(__filtered),\n",
                       "    None  # Return None for non-editable show\n">>)
            \o <<")[",
                 ToString(IF is_editable
                          THEN 1 + num_rows + Len(filters) + 1 + Len(filters)
                          ELSE 1 + num_rows + Len(filters) + 1 + Len(filters) + 1),
                 "])()">>)

\* generate_show_with_filters; df is the result of generating the table
\* argument into a String of its own, r the text the call is written to
generate_show_with_filters(r, df, filters_expr, is_editable) ==
    IF ~df.ok THEN df
    ELSE IF filters_expr.k # "ArrayLiteral"
    THEN gen_err(df, "Second argument to show/show_editable must be an array of filters")
    ELSE IF \E i \in DOMAIN filters_expr.args :
                filters_expr.args[i].k # "FilterLiteral"
    THEN gen_err(df, "Filter arrays must contain only filter literals")
    ELSE IF filters_expr.args = <<>>
    THEN IF is_editable
         THEN push_str(push_key(push_str(resume(r, df),
                                         <<"st.data_editor(">> \o df.val
                                         \o <<", key=\"">>),
                                "editor_"),
                       <<"\", use_container_width=True)">>)
         ELSE push_str(resume(r, df), <<"st.dataframe(">> \o df.val \o <<")">>)
    ELSE show_filtered(get_unique_key(resume(r, df)), df.val,
                       filters_expr.args, is_editable)

\* the functions written as receiver.method(argument): the text between
\* the two arguments and after them
MethodCalls ==
    [save_csv |-> <<".to_csv(", ", index=False)">>,
     export_excel |-> <<".to_excel(", ", index=False)">>,
     where |-> <<".query(", ")">>,
     sort |-> <<".sort_values(", ")">>,
     sort_desc |-> <<".sort_values(", ", ascending=False)">>,
     sum |-> <<"[", "].sum()">>,
     average |-> <<"[", "].mean()">>,
     mean |-> <<"[", "].mean()">>]

RECURSIVE generate_expr(_, _)
RECURSIVE generate_function_call(_, _)
RECURSIVE generate_args(_, _)

\* call.args.iter().map(|arg| self.generate_expr(arg)).collect(), joined
\* with ", "
generate_args(r, args) ==
    IF ~r.ok \/ args = <<>> THEN r
    ELSE generate_args(push_str(generate_expr(r, Head(args)),
                                IF Len(args) > 1 THEN <<", ">> ELSE <<>>),
                       Tail(args))

\* the Chain arm once the left side is generated into left
generate_chain(r, left, right) ==
    IF ~left.ok THEN left
    ELSE IF right.k = "FunctionCall"
    THEN generate_function_call(
             resume(r, left),
             [right EXCEPT !.args = replace_placeholder(@, left.val)])
    ELSE gen_err(left, "Chain right side must be a function call")

generate_function_call(r, call) ==
    IF ~r.ok THEN r
    ELSE CASE call.name = "load_csv" ->
                 IF Len(call.args) < 1
                 THEN gen_err(r, "load_csv requires at least 1 argument (file path)")
                 ELSE IF load_csv_validates(r.g, call)
                 THEN push_str(
                          generate_expr(push_str(r, <<"(_df := pd.read_csv(">>),
                                        call.args[1]),
                          <<"), st.error(f'Invalid CSV: expected columns [">>
                          \o expected_cols(r.g.table_defs[
                                 concat(identifier_text(call.args[2]))].fields)
                          \o <<"], got {list(_df.columns)}') if not set([">>
                          \o expected_cols(r.g.table_defs[
                                 concat(identifier_text(call.args[2]))].fields)
                          \o <<"]).issubset(set(_df.columns)) else None, _df)[2]">>)
                 ELSE push_str(generate_expr(push_str(r, <<"pd.read_csv(">>),
                                             call.args[1]),
                               <<")">>)
           [] call.name = "show" ->
                 IF Len(call.args) < 1
                 THEN gen_err(r, "show requires at least 1 argument (table to display)")
                 ELSE IF Len(call.args) > 1
                 THEN generate_show_with_filters(
                          r, generate_expr(Generating(r.g), call.args[1]),
                          call.args[2], FALSE)
                 ELSE push_str(generate_expr(push_str(r, <<"st.dataframe(">>),
                                             call.args[1]),
                               <<")">>)
           [] call.name = "show_editable" ->
                 IF Len(call.args) < 1
                 THEN gen_err(r, "show_editable requires at least 1 argument (table to edit)")
                 ELSE IF Len(call.args) > 1
                 THEN generate_show_with_filters(
                          r, generate_expr(Generating(r.g), call.args[1]),
                          call.args[2], TRUE)
                 ELSE push_str(
                          push_key(
                              push_str(generate_expr(
                                           push_str(r, <<"st.data_editor(">>),
                                           call.args[1]),
                                       <<", key=\"">>),
                              "editor_"),
                          <<"\", use_container_width=True)">>)
           [] call.name = "count" ->
                 IF Len(call.args) < 1
                 THEN gen_err(r, "count requires 1 argument")
                 ELSE push_str(generate_expr(push_str(r, <<"len(">>),
                                             call.args[1]),
                               <<")">>)
           [] call.name \in DOMAIN MethodCalls ->
                 IF Len(call.args) < 2
                 THEN gen_err(r, (IF call.name = "mean" THEN "average"
                                  ELSE call.name) \o " requires 2 arguments")
                 ELSE push_str(
                          generate_expr(
                              push_str(generate_expr(r, call.args[1]),
                                       <<MethodCalls[call.name][1]>>),
                              call.args[2]),
                          <<MethodCalls[call.name][2]>>)
           [] OTHER ->
                 push_str(generate_args(push_str(r, <<call.name, "(">>),
                                        call.args),
                          <<")">>)

generate_expr(r, expr) ==
    IF ~r.ok THEN r
    ELSE CASE expr.k \in {"IntLiteral", "FloatLiteral"} ->
                 push_str(r, <<expr.name>>)
           [] expr.k = "StringLiteral" ->
                 push_str(r, <<"\"", escape_string(expr.name), "\"">>)
           [] expr.k = "BoolLiteral" ->
                 push_str(r, <<IF expr.name = "true" THEN "True" ELSE "False">>)
           [] expr.k = "Identifier" -> push_str(r, identifier_text(expr))
           [] expr.k = "FunctionCall" -> generate_function_call(r, expr)
           [] expr.k = "BinaryOp" ->
                 push_str(
                     generate_expr(
                         push_str(generate_expr(push_str(r, <<"(">>),
                                                expr.args[1]),
                                  <<" ", BinaryOpStr[expr.op], " ">>),
                         expr.args[2]),
                     <<")">>)
           [] expr.k = "UnaryOp" ->
                 push_str(
                     generate_expr(
                         push_str(r, <<"(", IF expr.op = "Not" THEN "not" ELSE "-",
                                       " ">>),
                         expr.args[1]),
                     <<")">>)
           [] expr.k = "FieldAccess" ->
                 push_str(generate_expr(r, expr.args[1]),
                          <<"[", "\"", expr.name, "\"", "]">>)
           [] expr.k = "Index" ->
                 push_str(
                     generate_expr(push_str(generate_expr(r, expr.args[1]),
                                            <<".iloc[">>),
                                   expr.args[2]),
                     <<"]">>)
           [] expr.k = "Chain" ->
                 generate_chain(r, generate_expr(Generating(r.g), expr.args[1]),
                                expr.args[2])
           [] expr.k = "FilterLiteral" ->
                 gen_err(r, "Filter literals can only be used within show/show_editable filter arrays")
           [] expr.k = "ArrayLiteral" ->
                 gen_err(r, "Array literals must be handled in context (e.g., for filters)")
           [] OTHER -> gen_err(r, "Unsupported expression")

RECURSIVE generate_statement(_, _)
RECURSIVE generate_statements(_, _)

\* for s in body { code.push_str(&self.generate_statement(s)?); }
generate_statements(r, stmts) ==
    IF ~r.ok \/ stmts = <<>> THEN r
    ELSE generate_statements(generate_statement(r, Head(stmts)), Tail(stmts))

\* a block: the indent level raised, head written, the body generated, the
\* level lowered
generate_block(r, head, body) ==
    indent_by(generate_statements(push_str(indent_by(r, 1), head), body), -1)

generate_statement(r, stmt) ==
    IF ~r.ok THEN r
    ELSE CASE stmt.k = "Title" ->
                 push_str(r, get_indent(r.g.indent_level)
                             \o <<"st.title(\"", escape_string(stmt.name),
                                  "\")\n">>)
           [] stmt.k = "Subtitle" ->
                 push_str(r, get_indent(r.g.indent_level)
                             \o <<"st.subheader(\"", escape_string(stmt.name),
                                  "\")\n">>)
           [] stmt.k = "Text" ->
                 push_str(r, get_indent(r.g.indent_level)
                             \o <<"st.write(", "\"", escape_string(stmt.name),
                                  "\"", ")\n">>)
           [] stmt.k = "Button" ->
                 generate_block(
                     push_str(r, get_indent(r.g.indent_level)
                                 \o <<"if st.button(\"", escape_string(stmt.name),
                                      "\"):\n">>),
                     <<>>, stmt.body)
           [] stmt.k = "Section" ->
                 generate_block(
                     push_str(r, get_indent(r.g.indent_level)
                                 \o <<"with st.container():\n">>),
                     get_indent(r.g.indent_level + 1)
                     \o <<"st.markdown(\"### ", escape_string(stmt.name),
                          "\")\n">>,
                     stmt.body)
           [] stmt.k = "Let" ->
                 push_str(
                     generate_expr(push_str(r, get_indent(r.g.indent_level)
                                               \o <<stmt.name, " = ">>),
                                   stmt.value[1]),
                     <<"\n">>)
           [] stmt.k = "If" ->
                 IF stmt.else_branch = None
                 THEN generate_block(
                          push_str(generate_expr(
                                       push_str(r, get_indent(r.g.indent_level)
                                                   \o <<"if ">>),
                                       stmt.value[1]),
                                   <<":\n">>),
                          <<>>, stmt.body)
                 ELSE generate_block(
                          push_str(
                              generate_block(
                                  push_str(
                                      generate_expr(
                                          push_str(r,
                                                   get_indent(r.g.indent_level)
                                                   \o <<"if ">>),
                                          stmt.value[1]),
                                      <<":\n">>),
                                  <<>>, stmt.body),
                              get_indent(r.g.indent_level) \o <<"else:\n">>),
                          <<>>, stmt.else_branch[1])
           [] stmt.k = "Forall" ->
                 generate_block(
                     push_str(generate_expr(
                                  push_str(r, get_indent(r.g.indent_level)
                                              \o <<"for ", stmt.name, " in ">>),
                                  stmt.value[1]),
                              <<":\n">>),
                     <<>>, stmt.body)
           [] stmt.k = "FunctionCall" ->
                 push_str(
                     generate_function_call(
                         push_str(r, get_indent(r.g.indent_level)),
                         stmt.value[1]),
                     <<"\n">>)

\* the import lines of generate_page. The programs generated here declare
\* at most one external function, so the maps are iterated in one order.
generate_imports(g) ==
    IF DOMAIN g.external_functions = {} THEN <<>>
    ELSE LET name == CHOOSE n \in DOMAIN g.external_functions : TRUE
         IN  <<"from ", g.external_functions[name].module, " import ", name, "\n">>

\* generate_page: Ok(code) or Err, in a result of its own
generate_page(g, page) ==
    generate_statements(
        push_str(Generating(g),
                 <<"import streamlit as st\n", "import pandas as pd\n",
                   "from datetime import datetime\n">>
                 \o generate_imports(g)
                 \o <<"\n", "# Page: ", page.name, "\n", "\n">>),
        page.body)

\* HashMap::insert(key, value)
HashMap_insert(m, key, value) ==
    [k \in DOMAIN m \cup {key} |-> IF k = key THEN value ELSE m[k]]

---------------------------------------------------------------------------
(* Programs with show and show_editable calls. A program is handed to      *)
(* IRBuilder::build, or to the build command of the compiler (main.rs),    *)
(* which analyzes it and, when the analysis passes, hands it to            *)
(* CodeGenerator::generate.                                                *)

ShowT == Call("show", <<Id("T")>>)

EditT == Call("show_editable", <<Id("T")>>)

FilterA == FilterLiteral("a", "Single")

FilterB == FilterLiteral("a", "Multi")

\* the bodies of the generated pages
KeyBodies ==
    {<<CallStmt(ShowT), CallStmt(ShowT)>>,
     <<CallStmt(EditT), CallStmt(EditT)>>,
     <<Let("y", None, Some(Call("show_editable",
           <<Id("T"), ArrayLiteral(<<FilterA, FilterB, FilterA, FilterB>>)>>))),
       CallStmt(Call("show", <<Id("T"), ArrayLiteral(<<FilterB>>)>>))>>,
     <<Forall("i", Id("T"), <<CallStmt(EditT)>>),
       Button("b", <<CallStmt(Call("show_editable",
                                   <<Id("T"), ArrayLiteral(<<>>)>>))>>)>>,
     <<If(BoolLit("true"), <<CallStmt(EditT)>>,
          Some(<<CallStmt(Call("show", <<Id("T"), ArrayLiteral(<<>>)>>))>>)),
       Section("s", <<TextStmt("Title", "t"), TextStmt("Subtitle", "t"),
                      TextStmt("Text", "t"), CallStmt(EditT)>>)>>,
     <<CallStmt(EditT), CallStmt(Call("show", <<>>))>>,
     <<CallStmt(Call("show", <<Id("T"), Id("T")>>))>>,
     <<Let("y", None, Some(Chain(EditT, Call("g", <<>>)))),
       Let("z", None, Some(Call("count", <<Call("load_csv",
                                   <<StrLit("u.csv"), Id("T")>>)>>)))>>,
     <<CallStmt(EditT),
       Let("y", None, Some(Chain(EditT, Call("g", <<Id("_"), Id("_")>>))))>>}

KeyUnits ==
    {Page("P", body) : body \in KeyBodies}
    \cup {Page("Q", <<CallStmt(EditT)>>), Test("t", <<CallStmt(ShowT)>>)}

KeyPrograms ==
    {<<TableT, ExternalG>> \o q : q \in SeqsUpTo(KeyUnits, MaxItems)}

\* IRBuilder::new().build(&program), or the build command at its analysis
InitKeys ==
    /\ program \in KeyPrograms
    /\ phase \in {"build", "compile"}
    /\ symbols = SymbolTable_new
    /\ errors = <<>>
    /\ idx = 0
    /\ result = None
    /\ lastOp = NoOp
    /\ FrontIdle

\* build_command: analyzer.analyze(&program), and CodeGenerator::new() when
\* it passes
GenAnalyze ==
    /\ phase = "compile"
    /\ symbols' = analyze(program).symbols
    /\ errors' = analyze(program).errors
    /\ result' = Some(analyze_result(errors'))
    /\ IF errors' = <<>>
       THEN /\ phase' = IF program = <<>> THEN "pages" ELSE "collect"
            /\ idx' = 1
       ELSE /\ phase' = "failed"
            /\ idx' = idx
    /\ UNCHANGED <<program, lastOp, lexer, parser, exit, builder, codegen, server>>

\* one iteration of the first loop of generate
GenCollect ==
    /\ phase = "collect"
    /\ idx <= Len(program)
    /\ codegen' =
          CASE program[idx].k = "TableDef" ->
                  [codegen EXCEPT !.table_defs =
                      HashMap_insert(@, program[idx].name, program[idx])]
            [] program[idx].k = "ExternalFunction" ->
                  [codegen EXCEPT !.external_functions =
                      HashMap_insert(@, program[idx].name, program[idx])]
            [] OTHER -> codegen
    /\ IF idx = Len(program)
       THEN /\ phase' = "pages"
            /\ idx' = 1
       ELSE /\ phase' = phase
            /\ idx' = idx + 1
    /\ UNCHANGED <<program, symbols, errors, result, lastOp, lexer, parser, exit,
                   builder, server>>

\* Result<HashMap<String, String>, String>
GenerateResult(k, files, error) == [k |-> k, files |-> files, error |-> error]

\* let code = self.generate_page(page)?; output_files.insert(.., code)
insert_page(r, name) ==
    IF r.ok
    THEN [r.g EXCEPT !.output_files = HashMap_insert(@, name \o ".py", r.val)]
    ELSE [r.g EXCEPT !.result = Some(GenerateResult("Err", <<>>, r.val[1]))]

\* one iteration of the second loop of generate
GenPage ==
    /\ phase = "pages"
    /\ idx <= Len(program)
    /\ codegen' = IF program[idx].k = "Page"
                  THEN insert_page(generate_page(codegen, program[idx]),
                                   program[idx].name)
                  ELSE codegen
    /\ IF codegen'.result = None
       THEN /\ idx' = idx + 1
            /\ phase' = phase
       ELSE /\ idx' = idx
            /\ phase' = "generated"
    /\ UNCHANGED <<program, symbols, errors, result, lastOp, lexer, parser, exit,
                   builder, server>>

\* Ok(output_files)
GenReturn ==
    /\ phase = "pages"
    /\ idx > Len(program)
    /\ codegen' = [codegen EXCEPT !.result =
                      Some(GenerateResult("Ok", codegen.output_files, ""))]
    /\ phase' = "generated"
    /\ UNCHANGED <<program, symbols, errors, idx, result, lastOp, lexer, parser,
                   exit, builder, server>>

NextKeys ==
    \/ BuildAnalyze \/ LowerItem \/ BuildReturn
    \/ GenAnalyze \/ GenCollect \/ GenPage \/ GenReturn

SpecKeys == InitKeys /\ [][NextKeys]_vars

---------------------------------------------------------------------------
(* Claims about the keys of show and show_editable, checked under SpecKeys *)

\* the recognisable key texts: editor_k and f_k_i
MaxKeys == 16

KeyTexts ==
    {"editor_" \o ToString(k) : k \in 0..MaxKeys}
    \cup {"f_" \o ToString(k) \o "_" \o ToString(i) :
            k \in 0..MaxKeys, i \in 0..MaxKeys}

\* the widget keys written into a generated text, in order
EmittedKeys(code) == SelectSeq(code, LAMBDA piece : piece \in KeyTexts)

\* no element of the sequence occurs at two positions
NoRepeat(s) == \A i, j \in DOMAIN s : i < j => s[i] # s[j]

RECURSIVE ShowCalls(_)
RECURSIVE ShowCallsIn(_)
\* the show and show_editable nodes of a lowered expression, arguments first
ShowCalls(e) ==
    ShowCallsIn(e.args)
    \o (IF e.k = "FunctionCall" /\ e.name \in {"show", "show_editable"}
        THEN <<e>> ELSE <<>>)

ShowCallsIn(es) ==
    IF es = <<>> THEN <<>> ELSE ShowCalls(Head(es)) \o ShowCallsIn(Tail(es))

RECURSIVE ShowNodes(_)
\* the show and show_editable nodes of lowered statements, in order
ShowNodes(nodes) ==
    IF nodes = <<>> THEN <<>>
    ELSE (IF Head(nodes).value = None THEN <<>>
          ELSE ShowCalls(Head(nodes).value[1]))
         \o ShowNodes(Head(nodes).body)
         \o (IF Head(nodes).else_branch = None THEN <<>>
             ELSE ShowNodes(Head(nodes).else_branch[1]))
         \o ShowNodes(Tail(nodes))

RECURSIVE ModuleShowNodes(_)
\* the show and show_editable nodes of the items of a module, in order
ModuleShowNodes(items) ==
    IF items = <<>> THEN <<>>
    ELSE ShowNodes(Head(items).body) \o ModuleShowNodes(Tail(items))

\* the counter of the builder counts the show and show_editable nodes of
\* the module it built
C26_CounterCountsShows ==
    BuiltOk =>
        Len(ModuleShowNodes(builder.result[1].items)) = builder.key_counter

\* no widget key is written twice into the files of one generate() run
C26_GeneratedKeysDistinct ==
    /\ codegen.key_counter <= MaxKeys
    /\ \A f \in DOMAIN codegen.output_files :
          /\ NoRepeat(EmittedKeys(codegen.output_files[f]))
          /\ \A h \in DOMAIN codegen.output_files \ {f} :
                \A i \in DOMAIN EmittedKeys(codegen.output_files[f]) :
                \A j \in DOMAIN EmittedKeys(codegen.output_files[h]) :
                   EmittedKeys(codegen.output_files[f])[i]
                   # EmittedKeys(codegen.output_files[h])[j]

\* C26: every show or show_editable call is lowered to a node that carries
\* a key taken from a counter that goes up by one per such call, so the
\* show nodes of one built module are as many as the counter counts and no
\* two of them are the same; and the widget keys written by one generate()
\* run are pairwise distinct.
C26_ShowKeysAreUnique ==
    /\ C26_CounterCountsShows
    /\ BuiltOk => NoRepeat(ModuleShowNodes(builder.result[1].items))
    /\ C26_GeneratedKeysDistinct

\* a page that shows the table T twice is built into two nodes that
\* nothing tells apart, the counter standing at two
C26_Witness ==
    /\ BuiltOk
    /\ program = <<TableT, ExternalG,
                   Page("P", <<CallStmt(ShowT), CallStmt(ShowT)>>)>>
    /\ builder.key_counter = 2
    /\ Len(ModuleShowNodes(builder.result[1].items)) = 2
    /\ ModuleShowNodes(builder.result[1].items)[1]
       = ModuleShowNodes(builder.result[1].items)[2]
    /\ ModuleShowNodes(builder.result[1].items)[1]
       = IRFunctionCall("show", <<IRVariable("T", get_type(
             ModuleShowNodes(builder.result[1].items)[1].args[1]))>>, TypeUnit)

\* the build command passes `let y = show_editable(T) -> g(_, _)`, whose
\* initializer the analyzer does not check, and the generated page holds
\* the key of the chained show_editable twice
C26_DuplicatedKey ==
    /\ phase = "generated"
    /\ codegen.result # None
    /\ codegen.result[1].k = "Ok"
    /\ program = <<TableT, ExternalG,
                   Page("P", <<CallStmt(EditT),
                               Let("y", None,
                                   Some(Chain(EditT, Call("g", <<Id("_"),
                                                              Id("_")>>))))>>)>>
    /\ EmittedKeys(codegen.output_files["P.py"])
       = <<"editor_0", "editor_1", "editor_1">>

---------------------------------------------------------------------------
(* wtlang-lsp main.rs: WTLangServer. The editor sends did_open, did_change *)
(* and did_close notifications for one document; each starts a handler,    *)
(* an async fn that may be suspended at each of its .await points while    *)
(* other handlers run. documents is a tokio Mutex whose guard no handler   *)
(* holds across an .await, so the code between lock().await and the drop   *)
(* of the guard is one step. server.handlers holds the handlers in the     *)
(* order they were started, each with its parameters, its position and its *)
(* local variables; server.client holds the publishDiagnostics             *)
(* notifications in the order the client was sent them.                    *)

MaxHandlers == 3

DocUri == "file:///a.wt"

\* the texts the editor sends: `page a{}`, `page a{`, `page a{return u }`, `#`
DocTexts ==
    {FragPage \o FragClose, FragPage, FragPage \o FragReturn \o FragClose,
     FragHash}

DocumentState(source, version) ==
    [source |-> source, version |-> version, program |-> None]

\* a handler as it is called; text is the text of did_open or
\* content_changes.first(), None for did_close and for no change
Handler(kind, text, version) ==
    [kind |-> kind, uri |-> DocUri, text |-> text, version |-> version,
     pc |-> "start", source |-> None, seen |-> None, diagnostics |-> None]

\* lsp_types::Diagnostic: range, severity, code and message
LspDiagnostic(start_line, start_character, end_character, code, message) ==
    [start |-> [line |-> start_line, character |-> start_character],
     end |-> [line |-> start_line, character |-> end_character],
     severity |-> "ERROR", code |-> code, source |-> "wtlang",
     message |-> message]

\* usize::saturating_sub(1)
saturating_sub_1(n) == IF n = 0 THEN 0 ELSE n - 1

\* the semantic errors as diagnostics, all at the start of the document
semantic_diagnostics(errs) ==
    [i \in DOMAIN errs |-> LspDiagnostic(0, 0, 1, None, errs[i])]

\* the diagnostics of a DiagnosticBag as LSP diagnostics
bag_diagnostics(bag) ==
    [i \in DOMAIN bag |->
        LspDiagnostic(saturating_sub_1(bag[i].line),
                      saturating_sub_1(bag[i].column), bag[i].column,
                      Some(bag[i].code), bag[i].code)]

\* the match on parser.parse() of publish_diagnostics
parsed_diagnostics(p) ==
    IF p.result[1].ok
    THEN semantic_diagnostics(analyze(p.result[1].items).errors)
    ELSE bag_diagnostics(p.result[1].diagnostics)

\* the match on lexer.tokenize() of publish_diagnostics
lexed_diagnostics(lx) ==
    IF lx.result[1].ok
    THEN parsed_diagnostics(parse(Parser_new(lx.result[1].tokens)))
    ELSE bag_diagnostics(lx.result[1].diagnostics)

\* publish_diagnostics from Lexer::new(&source) to the last diagnostics.push
compile_diagnostics(source) == lexed_diagnostics(tokenize(Lexer_new(source)))

\* PublishDiagnosticsParams
Published(uri, diagnostics, version) ==
    [uri |-> uri, diagnostics |-> diagnostics, version |-> Some(version)]

\* the editor has the document open: its last did_open is not followed by
\* a did_close
EditorHasOpen(handlers) ==
    \E i \in DOMAIN handlers :
       /\ handlers[i].kind = "did_open"
       /\ \A j \in DOMAIN handlers : j > i => handlers[j].kind # "did_close"

\* the version the editor gives its next text: one more than the last
NextVersion(handlers) ==
    1 + Cardinality({i \in DOMAIN handlers :
                        handlers[i].kind \in {"did_open", "did_change"}})

InitServer ==
    /\ symbols = SymbolTable_new
    /\ lastOp = NoOp
    /\ SemIdle
    /\ FrontIdle

\* the frame of every step of the server
ServerStep ==
    UNCHANGED <<symbols, lastOp, program, phase, idx, errors, result, lexer,
                parser, exit, builder, codegen>>

\* textDocument/didOpen arrives and did_open is called
ReceiveDidOpen ==
    /\ Len(server.handlers) < MaxHandlers
    /\ ~EditorHasOpen(server.handlers)
    /\ \E text \in DocTexts :
          server' = [server EXCEPT !.handlers =
                        Append(@, Handler("did_open", Some(text),
                                          NextVersion(server.handlers)))]
    /\ ServerStep

\* textDocument/didChange arrives and did_change is called; the change
\* list holds the full text, or nothing
ReceiveDidChange ==
    /\ Len(server.handlers) < MaxHandlers
    /\ EditorHasOpen(server.handlers)
    /\ \E text \in {Some(t) : t \in DocTexts} \cup {None} :
          server' = [server EXCEPT !.handlers =
                        Append(@, Handler("did_change", text,
                                          NextVersion(server.handlers)))]
    /\ ServerStep

\* textDocument/didClose arrives and did_close is called
ReceiveDidClose ==
    /\ Len(server.handlers) < MaxHandlers
    /\ EditorHasOpen(server.handlers)
    /\ server' = [server EXCEPT !.handlers =
                     Append(@, Handler("did_close", None, 0))]
    /\ ServerStep

\* HashMap::remove(key)
HashMap_remove(m, key) == [k \in DOMAIN m \ {key} |-> m[k]]

\* did_open from the lock of documents to drop(docs)
DidOpenInsert ==
    \E h \in DOMAIN server.handlers :
        /\ server.handlers[h].kind = "did_open"
        /\ server.handlers[h].pc = "start"
        /\ server' = [server EXCEPT
              !.documents = HashMap_insert(@, server.handlers[h].uri,
                                DocumentState(server.handlers[h].text[1],
                                              server.handlers[h].version)),
              !.handlers[h].pc = "publish_diagnostics"]
        /\ ServerStep

\* did_change from if let Some(change) to drop(docs), or to its end when
\* there is no change
DidChangeUpdate ==
    \E h \in DOMAIN server.handlers :
        /\ server.handlers[h].kind = "did_change"
        /\ server.handlers[h].pc = "start"
        /\ server' =
              IF server.handlers[h].text = None
              THEN [server EXCEPT !.handlers[h].pc = "done"]
              ELSE IF server.handlers[h].uri \in DOMAIN server.documents
              THEN [server EXCEPT
                       !.documents[server.handlers[h].uri] =
                           DocumentState(server.handlers[h].text[1],
                                         server.handlers[h].version),
                       !.handlers[h].pc = "publish_diagnostics"]
              ELSE [server EXCEPT !.handlers[h].pc = "publish_diagnostics"]
        /\ ServerStep

\* did_close
DidCloseRemove ==
    \E h \in DOMAIN server.handlers :
        /\ server.handlers[h].kind = "did_close"
        /\ server.handlers[h].pc = "start"
        /\ server' = [server EXCEPT
              !.documents = HashMap_remove(@, server.handlers[h].uri),
              !.handlers[h].pc = "done"]
        /\ ServerStep

\* publish_diagnostics from the lock of documents to drop(docs): the
\* source and the version copied, or the return when there is no document
PublishRead ==
    \E h \in DOMAIN server.handlers :
        /\ server.handlers[h].pc = "publish_diagnostics"
        /\ server' =
              IF server.handlers[h].uri \in DOMAIN server.documents
              THEN [server EXCEPT
                       !.handlers[h].source =
                           Some(server.documents[server.handlers[h].uri].source),
                       !.handlers[h].seen =
                           Some(server.documents[server.handlers[h].uri].version),
                       !.handlers[h].pc = "compile"]
              ELSE [server EXCEPT !.handlers[h].pc = "done"]
        /\ ServerStep

\* publish_diagnostics from Lexer::new(&source) to the call of
\* client.publish_diagnostics
PublishCompile ==
    \E h \in DOMAIN server.handlers :
        /\ server.handlers[h].pc = "compile"
        /\ server' = [server EXCEPT
              !.handlers[h].diagnostics =
                  Some(compile_diagnostics(server.handlers[h].source[1])),
              !.handlers[h].pc = "notify"]
        /\ ServerStep

\* client.publish_diagnostics(uri, diagnostics, Some(version)).await
PublishNotify ==
    \E h \in DOMAIN server.handlers :
        /\ server.handlers[h].pc = "notify"
        /\ server' = [server EXCEPT
              !.client = Append(@, Published(server.handlers[h].uri,
                                             server.handlers[h].diagnostics[1],
                                             server.handlers[h].seen[1])),
              !.handlers[h].pc = "done"]
        /\ ServerStep

NextServer ==
    \/ ReceiveDidOpen
    \/ ReceiveDidChange
    \/ ReceiveDidClose
    \/ DidOpenInsert
    \/ DidChangeUpdate
    \/ DidCloseRemove
    \/ PublishRead
    \/ PublishCompile
    \/ PublishNotify

SpecServer == InitServer /\ [][NextServer]_vars

---------------------------------------------------------------------------
(* Claims about the editor server, checked under SpecServer *)

\* the handler has copied a text of the document and has not yet sent the
\* diagnostics computed from it
Compiling(handler) == handler.pc \in {"compile", "notify"}

\* two handlers are between the copy of the text and the notification at
\* the same time
CompilesOverlap ==
    \E i, j \in DOMAIN server.handlers :
       /\ i # j
       /\ server.handlers[i].uri = server.handlers[j].uri
       /\ Compiling(server.handlers[i])
       /\ Compiling(server.handlers[j])

\* the client was sent diagnostics of a version after diagnostics of a
\* later version of the same document
StalePublish ==
    \E i, j \in DOMAIN server.client :
       /\ i < j
       /\ server.client[i].uri = server.client[j].uri
       /\ server.client[j].version[1] < server.client[i].version[1]

\* C27: the server runs at most one compile (lex, parse, analyze, publish)
\* per document at a time: under every interleaving of the did_open and
\* did_change handlers of one document no two compiles overlap, and
\* diagnostics computed from an older text are never published after
\* diagnostics computed from a newer text.
C27_OneCompilePerDocument == ~CompilesOverlap /\ ~StalePublish

\* did_open of `page a{` (version 1) copies the text and computes E2001;
\* before it sends, did_change to `page a{}` (version 2) runs to its end
\* and publishes no diagnostics; then the diagnostics of version 1 are
\* sent, and the client is left with an error for a text without one
C27_Witness ==
    /\ Len(server.handlers) = 2
    /\ server.handlers[1].kind = "did_open"
    /\ server.handlers[2].kind = "did_change"
    /\ server.handlers[1].pc = "done"
    /\ server.handlers[2].pc = "done"
    /\ server.documents[DocUri] = DocumentState(FragPage \o FragClose, 2)
    /\ Len(server.client) = 2
    /\ server.client[1] = Published(DocUri, <<>>, 2)
    /\ server.client[2].version = Some(1)
    /\ server.client[2].diagnostics # <<>>
    /\ server.client[2].diagnostics = compile_diagnostics(FragPage)

\* the two handlers of the witness while both hold a copy of a text
C27_OverlapWitness ==
    /\ Len(server.handlers) = 2
    /\ server.handlers[1].pc = "notify"
    /\ server.handlers[1].seen = Some(1)
    /\ server.handlers[2].pc = "compile"
    /\ server.handlers[2].seen = Some(2)

====
